---- MODULE Spec2Model ----
(***************************************************************************)
(* TRMNL-HA image preparation: the dithering engine (applyDithering, in    *)
(* its two variants: the validating one of lib/dithering.js and the        *)
(* streaming one of the add-on) and the BMP container encoder (bmp.js).    *)
(*                                                                         *)
(* JavaScript values are modelled as follows.  An optional field of an     *)
(* options object is a sequence of length at most one: <<>> is a missing   *)
(* (undefined) field, <<v>> a field given the value v.  A value handed to  *)
(* applyDithering as imageBuffer is a record [isBuffer, ref, bytes]: ref   *)
(* is the object's identity, bytes its content.  Numbers with a fractional *)
(* part occur only in bmp.js, as multiples of 1/8, and are kept there as   *)
(* integers counting eighths.                                              *)
(***************************************************************************)
EXTENDS Integers, Sequences, FiniteSets, TLC

\* ------------------------------------------------------------------------
\* Bounds of the model
\* ------------------------------------------------------------------------

\* Longest input or output buffer of a dithering call, in bytes.
MaxBufLen == 2

\* Most data chunks the backend's stdout delivers in one streaming call.
MaxChunks == 2

\* Most stderr lines the backend writes in one streaming call.
MaxStderr == 1

\* Largest image the encoder is constructed for, in pixels.
MaxWidth == 16
MaxHeight == 3

\* Handler invocations (HTTP requests, cron ticks, timer firings) in a run.
MaxTasks == 4

\* Warm-up timers armed at a time.
MaxTimers == 2

\* Handler invocations in a run that is followed on the clock.
MaxCleanupTasks == 2
MaxLiveTasks == 3
MaxNextCalls == 102
MaxLaunches == 3
MaxShots == 4
MaxCleanups == 2

\* The last instant of a run that is followed on the clock, in milliseconds.
MaxTime == 76000

\* Invocations of scheduled jobs (cron ticks) in a run.
MaxRuns == 3

\* Schedule ids ever given out by the store.
MaxSchedules == 3

\* const BROWSER_TIMEOUT = 30_000
BROWSER_TIMEOUT == 30000
MAX_NEXT_REQUESTS == 100
HEADER_HEIGHT == 56

\* ------------------------------------------------------------------------
\* State
\* ------------------------------------------------------------------------

VARIABLES
    dpc,        \* position of the caller's dithering call: idle (not yet made),
                \* awaiting, spawned, streaming, settled
    dcall,      \* the call in progress: [variant, input, options]
    ops,        \* backend (GraphicsMagick) operations issued by the call, in order
    logs,       \* console lines written by the call, in order
    chunks,     \* streaming variant: the chunks collected from stdout
    outcome,    \* how the call's promise settled: [kind, val, err]
    heap,       \* the caller's buffer and options objects as they are now:
                \* [input, options]; dcall keeps them as they were at the call
    bpc,        \* position of the encoder's user: none, constructed, threw, encoded
    ctorArgs,   \* the arguments of new BMPEncoder(width, height, bitsPerPixel)
    enc,        \* the BMPEncoder object's fields
    encData,    \* the argument of encode(data)
    encResult,  \* what encode did: [kind, header, pixelData, bytes]
    vpc,        \* position of validateOptions' caller: none, done
    vcall,      \* the options object given to validateOptions
    vresult,    \* what validateOptions did: [kind, val, msg]
    hbusy,      \* RequestHandler.busy
    pending,    \* RequestHandler.pending: the tasks whose resolvers are queued
    micro,      \* the event loop's microtask queue: tasks whose continuation is due
    tasks,      \* every handler invocation: [kind, pc, viewportOk, next, shotPage]
    timers,     \* number of armed warm-up timers (RequestHandler.nextRequests)
    bbusy,      \* Browser.busy
    page,       \* the task whose navigation the browser page shows (0: none)
    busyErrors, \* whether "Browser is busy" has ever been thrown
    now,        \* the clock (Date.now()), in milliseconds since the handler was made
    keepOpen,   \* the configuration value keepBrowserOpen
    cleanups,   \* how many times Browser.cleanup has been started
    lastAccess, \* RequestHandler.lastAccess
    browserCleanupTimer,  \* RequestHandler.browserCleanupTimer: the due time that
                \* names its timeout, -1 while undefined
    armedTimers,  \* the clean-up timeouts armed in the event loop, by due time
    lastFinish, \* when a handler invocation last left through finally
    store,      \* schedules.json: the list of stored schedules
    nextId,     \* the id generateId() gives out next
    jobs,       \* the add-on Scheduler's jobs map: schedule id -> job
    pjobs,      \* the stand-alone Scheduler's jobs array: the schedule of each job
    runs,       \* the invocations of job callbacks
    sbusy,      \* busy of the stand-alone Scheduler's own Browser
    reply,      \* the schedule API's last answer
    reloaded,   \* history: loadAndSchedule has run since the store was last saved
    shot,       \* the last screenshotPage call: its parameters, the encoder it
                \* constructed and how it ended
    engine,     \* the last applyDithering call made by screenshotPage: the levels
                \* of the query string and the options record handed over
    nextRequests,   \* RequestHandler.nextRequests: ids of the warm-up timeouts
    nextArmed,      \* the warm-up timeouts that are armed (not fired, not cleared)
    nextIssued,     \* the number of setTimeout calls made for warm-ups
    nextCall,       \* the last scheduleNextRequest call: next, the wait computed,
                    \* whether a timeout was added and which one was cleared
    brw,            \* Browser fields: browser, page (0 is undefined), lastRequestedPath
    launched,       \* the number of browsers launched (browser n has page n)
    closedPages,    \* the pages closed so far
    closedBrowsers, \* the browsers closed so far
    closing,        \* the invocations of Browser.cleanup: position, captured objects
    req,            \* the invocation in the browser section: position, its page
    loadedPages,    \* history: the pages on which page.goto has loaded the dashboard
    jobViewport,    \* the viewport object of the schedule held by the cron job's
                    \* callback: <<>> before a job exists
    warmViewports,  \* the viewport objects of the requestParams kept by armed
                    \* warm-up timeouts
    clip,           \* the last page.screenshot call: who asked, the height asked
                    \* for and the clip height passed
    shots,          \* the number of navigatePage calls made
    live,           \* the cron tasks created by cron.schedule and not stopped
    sent            \* the id field of the last body sent to the schedule API
                    \* (<<>>: the body had none)

dvars == <<dpc, dcall, ops, logs, chunks, outcome, heap>>

bvars == <<bpc, ctorArgs, enc, encData, encResult>>

vvars == <<vpc, vcall, vresult>>

clockVars == <<now, keepOpen, cleanups>>

accessVars == <<lastAccess, browserCleanupTimer, armedTimers, lastFinish>>

svars == <<store, nextId, jobs, pjobs, runs, sbusy, reply, reloaded, shot>>

nvars == <<nextRequests, nextArmed, nextIssued, nextCall>>

cvars == <<brw, launched, closedPages, closedBrowsers, closing, req, loadedPages>>

zvars == <<jobViewport, warmViewports, clip, shots>>

xvars == <<engine, nvars, cvars, zvars, live, sent>>

hvars == <<hbusy, pending, micro, tasks, timers, bbusy, page, busyErrors,
           now, keepOpen, cleanups, lastAccess, browserCleanupTimer, armedTimers, lastFinish>>

vars == <<dpc, dcall, ops, logs, chunks, outcome, heap, bpc, ctorArgs, enc, encData, encResult,
          vpc, vcall, vresult, hbusy, pending, micro, tasks, timers, bbusy, page, busyErrors,
          now, keepOpen, cleanups, lastAccess, browserCleanupTimer, armedTimers, lastFinish,
          store, nextId, jobs, pjobs, runs, sbusy, reply, reloaded, shot, engine,
          nextRequests, nextArmed, nextIssued, nextCall,
          brw, launched, closedPages, closedBrowsers, closing, req, loadedPages,
          jobViewport, warmViewports, clip, shots, live, sent>>

\* ------------------------------------------------------------------------
\* Values
\* ------------------------------------------------------------------------

Given(f) == f # <<>>

\* Destructuring default: `const { f = d } = options` replaces undefined only.
Default(f, d) == IF f = <<>> THEN d ELSE f[1]

NoOptions == [method |-> <<>>, bitDepth |-> <<>>, gammaCorrection |-> <<>>,
              blackLevel |-> <<>>, whiteLevel |-> <<>>]

MethodValues == {"floyd-steinberg", "ordered", "none", "invalid"}
BitDepthValues == {1, 2, 3, 4, 8}
LevelValues == {-1, 0, 50, 100, 101}

Opt(S) == {<<>>} \cup {<<v>> : v \in S}

OptionRecords ==
    [method : Opt(MethodValues), bitDepth : Opt(BitDepthValues),
     gammaCorrection : Opt(BOOLEAN),
     blackLevel : Opt(LevelValues), whiteLevel : Opt(LevelValues)]

\* A Buffer object r of n bytes (the value of a byte plays no part in the engine).
BufferOf(r, n) == [isBuffer |-> TRUE, ref |-> r, bytes |-> [i \in 1..n |-> 137]]

\* The caller's buffers: one object per length, the empty buffer included.
InputBuffers == {BufferOf(n + 1, n) : n \in 0..MaxBufLen}

\* A value that is not a Buffer ('not a buffer' in the unit test).
NotABuffer == [isBuffer |-> FALSE, ref |-> 0, bytes |-> <<>>]

Inputs == InputBuffers \cup {NotABuffer}

\* Buffers the backend creates are new objects.
BackendRef == MaxBufLen + 2

NoValue == [isBuffer |-> FALSE, ref |-> 0, bytes |-> <<>>]

Err(m, c) == [msg |-> m, cause |-> c]
NoErr == Err("", "")

Pending == [kind |-> "pending", val |-> NoValue, err |-> NoErr]
Resolved(v) == [kind |-> "resolved", val |-> v, err |-> NoErr]
Rejected(e) == [kind |-> "rejected", val |-> NoValue, err |-> e]

Op(name, x, y) == [op |-> name, x |-> x, y |-> y]

NoCall == [variant |-> "none", input |-> NotABuffer, options |-> NoOptions]

\* ------------------------------------------------------------------------
\* applyDithering of lib/dithering.js (validation, fast path, pipeline)
\* ------------------------------------------------------------------------

\* const { method = 'floyd-steinberg', bitDepth = 4, ... } = options
Destructure(options) ==
    [method |-> Default(options.method, "floyd-steinberg"),
     bitDepth |-> Default(options.bitDepth, 4),
     gammaCorrection |-> Default(options.gammaCorrection, TRUE),
     blackLevel |-> Default(options.blackLevel, 0),
     whiteLevel |-> Default(options.whiteLevel, 100)]

MsgNotBuffer == "imageBuffer must be a Buffer"
MsgMethod == "Invalid dithering method"
MsgBitDepth == "Invalid bit depth"
MsgRange == "Black and white levels must be between 0 and 100"
MsgOrder == "Black level must be less than white level"

\* Mutant of ValidationError: equal levels are let through (> for >=).
ValidationErrorNonStrict(imageBuffer, o) ==
    IF ~imageBuffer.isBuffer THEN MsgNotBuffer
    ELSE IF o.method \notin {"floyd-steinberg", "ordered", "none"} THEN MsgMethod
    ELSE IF o.bitDepth \notin {1, 2, 4, 8} THEN MsgBitDepth
    ELSE IF o.blackLevel < 0 \/ o.blackLevel > 100
            \/ o.whiteLevel < 0 \/ o.whiteLevel > 100 THEN MsgRange
    ELSE IF o.blackLevel > o.whiteLevel THEN MsgOrder
    ELSE ""

\* Mutant of ValidationError: the ordering check comes before the range check.
ValidationErrorOrderFirst(imageBuffer, o) ==
    IF ~imageBuffer.isBuffer THEN MsgNotBuffer
    ELSE IF o.method \notin {"floyd-steinberg", "ordered", "none"} THEN MsgMethod
    ELSE IF o.bitDepth \notin {1, 2, 4, 8} THEN MsgBitDepth
    ELSE IF o.blackLevel >= o.whiteLevel THEN MsgOrder
    ELSE IF o.blackLevel < 0 \/ o.blackLevel > 100
            \/ o.whiteLevel < 0 \/ o.whiteLevel > 100 THEN MsgRange
    ELSE ""

\* The message of the first validation check that throws, "" when none does.
\* o is the destructured options record.
ValidationError(imageBuffer, o) ==
    IF ~imageBuffer.isBuffer THEN MsgNotBuffer
    ELSE IF o.method \notin {"floyd-steinberg", "ordered", "none"} THEN MsgMethod
    ELSE IF o.bitDepth \notin {1, 2, 4, 8} THEN MsgBitDepth
    ELSE IF o.blackLevel < 0 \/ o.blackLevel > 100
            \/ o.whiteLevel < 0 \/ o.whiteLevel > 100 THEN MsgRange
    ELSE IF o.blackLevel >= o.whiteLevel THEN MsgOrder
    ELSE ""

\* Mutant of FastPath: the shortcut is taken only when gamma removal is off.
FastPathGammaOff(o) ==
    o.method = "none" /\ o.bitDepth = 8 /\ o.blackLevel = 0 /\ o.whiteLevel = 100
    /\ ~o.gammaCorrection

\* "If no dithering requested, return original (backward compatible)"
FastPath(o) ==
    o.method = "none" /\ o.bitDepth = 8 /\ o.blackLevel = 0 /\ o.whiteLevel = 100

\* Math.pow(2, n) for the whole numbers n the model uses.
RECURSIVE Exp2(_)
Exp2(n) == IF n <= 0 THEN 1 ELSE 2 * Exp2(n - 1)

\* The operations chained on the gm instance, in the order of the calls.
\* level(b%, 1.0, w%) is LevelOp(b, 10, w); dither(true) is Op("dither", 1, 0);
\* threshold(50, true) is Op("threshold", 50, 1).

\* if (gammaCorrection) image = image.noProfile()
GammaOps(o) == IF o.gammaCorrection THEN <<Op("noProfile", 0, 0)>> ELSE <<>>

\* image = image.colorspace('Gray')
GrayOps == <<Op("colorspace Gray", 0, 0)>>

\* image.level(`${blackLevel}%`, gamma, `${whiteLevel}%`): the black and white
\* points in percent, the mid-tone gamma in tenths (10 is the 1.0 of the code).
LevelOp(blackLevel, gamma, whiteLevel) ==
    [op |-> "level", x |-> blackLevel, y |-> whiteLevel, gamma |-> gamma]

\* Mutant of LevelOps: the levels are adjusted only when both are off their
\* defaults (&& for ||).
LevelOpsBoth(o) ==
    IF o.blackLevel > 0 /\ o.whiteLevel < 100
    THEN <<LevelOp(o.blackLevel, 10, o.whiteLevel)>> ELSE <<>>

\* if (blackLevel > 0 || whiteLevel < 100) image = image.level(...)
LevelOps(o) ==
    IF o.blackLevel > 0 \/ o.whiteLevel < 100
    THEN <<LevelOp(o.blackLevel, 10, o.whiteLevel)>> ELSE <<>>

\* Mutant of QuantizeOps: at one bit, method none goes the way of ordered
\* (diffusion off, monochrome) instead of the threshold.
QuantizeOpsNoThreshold(o) ==
    IF o.bitDepth = 1
    THEN IF o.method = "floyd-steinberg"
         THEN <<Op("dither", 1, 0), Op("monochrome", 0, 0)>>
         ELSE <<Op("dither", 0, 0), Op("monochrome", 0, 0)>>
    ELSE IF o.bitDepth = 2 \/ o.bitDepth = 4
    THEN IF o.method = "floyd-steinberg"
         THEN <<Op("dither", 1, 0), Op("colors", Exp2(o.bitDepth), 0)>>
         ELSE IF o.method = "ordered"
         THEN <<Op("dither", 0, 0), Op("colors", Exp2(o.bitDepth), 0)>>
         ELSE <<Op("colors", Exp2(o.bitDepth), 0)>>
    ELSE IF o.method = "floyd-steinberg" THEN <<Op("dither", 1, 0)>>
         ELSE IF o.method = "ordered" THEN <<Op("dither", 0, 0)>>
         ELSE <<>>

\* "Apply dithering based on bit depth"
QuantizeOps(o) ==
    IF o.bitDepth = 1
    THEN IF o.method = "floyd-steinberg"
         THEN <<Op("dither", 1, 0), Op("monochrome", 0, 0)>>
         ELSE IF o.method = "ordered"
         THEN <<Op("dither", 0, 0), Op("monochrome", 0, 0)>>
         ELSE <<Op("threshold", 50, 1)>>
    ELSE IF o.bitDepth = 2 \/ o.bitDepth = 4
    THEN IF o.method = "floyd-steinberg"
         THEN <<Op("dither", 1, 0), Op("colors", Exp2(o.bitDepth), 0)>>
         ELSE IF o.method = "ordered"
         THEN <<Op("dither", 0, 0), Op("colors", Exp2(o.bitDepth), 0)>>
         ELSE <<Op("colors", Exp2(o.bitDepth), 0)>>
    ELSE IF o.method = "floyd-steinberg" THEN <<Op("dither", 1, 0)>>
         ELSE IF o.method = "ordered" THEN <<Op("dither", 0, 0)>>
         ELSE <<>>

\* const result = await toBuffer('PNG')
EncodeOps == <<Op("toBuffer PNG", 0, 0)>>

\* Mutant of Pipeline: the levels are adjusted after the quantization.
PipelineLevelLast(o) ==
    GammaOps(o) \o GrayOps \o QuantizeOps(o) \o LevelOps(o) \o EncodeOps

\* The whole chain of one call, toBuffer included.
Pipeline(o) ==
    GammaOps(o) \o GrayOps \o LevelOps(o) \o QuantizeOps(o) \o EncodeOps

\* Mutant of applyDithering: the gm chain is built before the options are
\* validated.
applyDitheringLateValidation(imageBuffer, options) ==
    LET o == Destructure(options)
        e == ValidationError(imageBuffer, o)
    IN  /\ dpc = "idle"
        /\ dcall' = [variant |-> "lib", input |-> imageBuffer, options |-> options]
        /\ heap' = [input |-> imageBuffer, options |-> options]
        /\ logs' = <<>>
        /\ chunks' = <<>>
        /\ ops' = Pipeline(o)
        /\ IF e # ""
           THEN dpc' = "settled" /\ outcome' = Rejected(Err(e, ""))
           ELSE IF FastPath(o)
           THEN dpc' = "settled" /\ outcome' = Resolved(imageBuffer)
           ELSE dpc' = "awaiting" /\ outcome' = Pending
        /\ UNCHANGED <<bvars, vvars, hvars, svars, xvars>>

\* Mutant of applyDithering: the defaults are stored into the caller's options
\* object instead of into local constants.
applyDitheringStoresDefaults(imageBuffer, options) ==
    LET o == Destructure(options)
        e == ValidationError(imageBuffer, o)
    IN  /\ dpc = "idle"
        /\ dcall' = [variant |-> "lib", input |-> imageBuffer, options |-> options]
        /\ heap' = [input |-> imageBuffer,
                    options |-> [method |-> <<o.method>>, bitDepth |-> <<o.bitDepth>>,
                                 gammaCorrection |-> <<o.gammaCorrection>>,
                                 blackLevel |-> <<o.blackLevel>>,
                                 whiteLevel |-> <<o.whiteLevel>>]]
        /\ logs' = <<>>
        /\ chunks' = <<>>
        /\ IF e # ""
           THEN dpc' = "settled" /\ ops' = <<>> /\ outcome' = Rejected(Err(e, ""))
           ELSE IF FastPath(o)
           THEN dpc' = "settled" /\ ops' = <<>> /\ outcome' = Resolved(imageBuffer)
           ELSE dpc' = "awaiting" /\ ops' = Pipeline(o) /\ outcome' = Pending
        /\ UNCHANGED <<bvars, vvars, hvars, svars, xvars>>

\* A call of applyDithering, up to its first await: it rejects in validation,
\* returns the input on the fast path, or chains the pipeline and awaits
\* toBuffer.
applyDithering(imageBuffer, options) ==
    LET o == Destructure(options)
        e == ValidationError(imageBuffer, o)
    IN  /\ dpc = "idle"
        /\ dcall' = [variant |-> "lib", input |-> imageBuffer, options |-> options]
        /\ heap' = [input |-> imageBuffer, options |-> options]
        /\ logs' = <<>>
        /\ chunks' = <<>>
        /\ IF e # ""
           THEN dpc' = "settled" /\ ops' = <<>> /\ outcome' = Rejected(Err(e, ""))
           ELSE IF FastPath(o)
           THEN dpc' = "settled" /\ ops' = <<>> /\ outcome' = Resolved(imageBuffer)
           ELSE dpc' = "awaiting" /\ ops' = Pipeline(o) /\ outcome' = Pending
        /\ UNCHANGED <<bvars, vvars, hvars, svars, xvars>>

\* What gm's toBuffer hands to its callback: an error, or a non-empty buffer
\* (gm itself turns an empty stdout into the error "Stream yields empty buffer").
BackendCauses == {"spawn gm ENOENT", "gm exited with code 1", "Stream yields empty buffer"}

BackendBuffers == {BufferOf(BackendRef, n) : n \in 1..MaxBufLen}

\* await toBuffer('PNG') throws: the catch block wraps the cause.
toBufferFails(cause) ==
    /\ dpc = "awaiting"
    /\ dpc' = "settled"
    /\ outcome' = Rejected(Err("Dithering failed", cause))
    /\ UNCHANGED <<heap, dcall, ops, logs, chunks, bvars, vvars, hvars, svars, xvars>>

\* await toBuffer('PNG') returns: the timing line is logged, the result returned.
toBufferReturns(result) ==
    /\ dpc = "awaiting"
    /\ dpc' = "settled"
    /\ logs' = Append(logs, "Dithering applied")
    /\ outcome' = Resolved(result)
    /\ UNCHANGED <<heap, dcall, ops, chunks, bvars, vvars, hvars, svars, xvars>>

\* ------------------------------------------------------------------------
\* applyDithering of the add-on's dithering module (no validation, stream)
\* ------------------------------------------------------------------------

\* const { method = "floyd-steinberg", bitDepth = 2, ... } = options
StreamDestructure(options) ==
    [method |-> Default(options.method, "floyd-steinberg"),
     bitDepth |-> Default(options.bitDepth, 2),
     gammaCorrection |-> Default(options.gammaCorrection, TRUE),
     blackLevel |-> Default(options.blackLevel, 0),
     whiteLevel |-> Default(options.whiteLevel, 100)]

\* The operations chained on the gm instance, then stream("png").
\* threshold("50%") is Op("threshold", 50, 1).
StreamPipeline(o) ==
    (IF o.gammaCorrection THEN <<Op("noProfile", 0, 0)>> ELSE <<>>)
    \o <<Op("colorspace Gray", 0, 0)>>
    \o (IF o.blackLevel > 0 \/ o.whiteLevel < 100
        THEN <<LevelOp(o.blackLevel, 10, o.whiteLevel)>> ELSE <<>>)
    \o (IF o.bitDepth = 1
        THEN IF o.method = "floyd-steinberg"
             THEN <<Op("dither", 1, 0), Op("monochrome", 0, 0)>>
             ELSE IF o.method = "ordered"
             THEN <<Op("dither", 0, 0), Op("monochrome", 0, 0)>>
             ELSE <<Op("threshold", 50, 1)>>
        ELSE IF o.bitDepth = 2 \/ o.bitDepth = 4 \/ o.bitDepth = 8
        THEN IF o.method = "floyd-steinberg"
             THEN <<Op("dither", 1, 0), Op("colors", Exp2(o.bitDepth), 0)>>
             ELSE IF o.method = "ordered"
             THEN <<Op("dither", 0, 0), Op("colors", Exp2(o.bitDepth), 0)>>
             ELSE <<Op("colors", Exp2(o.bitDepth), 0)>>
        ELSE <<>>)
    \o <<Op("stream png", 0, 0)>>

\* A call of the streaming applyDithering, up to the return of its promise:
\* the chain is built and image.stream("png", callback) is started.
applyDitheringStream(imageBuffer, options) ==
    /\ dpc = "idle"
    /\ dcall' = [variant |-> "stream", input |-> imageBuffer, options |-> options]
    /\ heap' = [input |-> imageBuffer, options |-> options]
    /\ logs' = <<>>
    /\ chunks' = <<>>
    /\ dpc' = "spawned"
    /\ ops' = StreamPipeline(StreamDestructure(options))
    /\ outcome' = Pending
    /\ UNCHANGED <<bvars, vvars, hvars, svars, xvars>>

\* The stream callback is called with err: reject(err).
streamCallbackErr(cause) ==
    /\ dpc = "spawned"
    /\ dpc' = "settled"
    /\ outcome' = Rejected(Err(cause, ""))
    /\ UNCHANGED <<heap, dcall, ops, logs, chunks, bvars, vvars, hvars, svars, xvars>>

\* The stream callback is called with stdout and stderr: handlers are attached.
streamCallbackOk ==
    /\ dpc = "spawned"
    /\ dpc' = "streaming"
    /\ UNCHANGED <<heap, dcall, ops, logs, chunks, outcome, bvars, vvars, hvars, svars, xvars>>

\* stdout.on("data"): chunks.push(chunk); a chunk is a number of bytes.
stdoutData(n) ==
    /\ dpc = "streaming"
    /\ Len(chunks) < MaxChunks
    /\ chunks' = Append(chunks, n)
    /\ UNCHANGED <<heap, dpc, dcall, ops, logs, outcome, bvars, vvars, hvars, svars, xvars>>

\* stderr.on("data"): console.error("GM stderr:", ...).
stderrData ==
    /\ dpc = "streaming"
    /\ Len(logs) < MaxStderr
    /\ logs' = Append(logs, "GM stderr:")
    /\ UNCHANGED <<heap, dpc, dcall, ops, chunks, outcome, bvars, vvars, hvars, svars, xvars>>

RECURSIVE SumSeq(_)
SumSeq(s) == IF s = <<>> THEN 0 ELSE Head(s) + SumSeq(Tail(s))

\* stdout.on("end"): Buffer.concat(chunks); empty rejects, otherwise resolves.
stdoutEnd ==
    /\ dpc = "streaming"
    /\ dpc' = "settled"
    /\ outcome' = IF SumSeq(chunks) = 0
                  THEN Rejected(Err("GraphicsMagick produced empty output", ""))
                  ELSE Resolved(BufferOf(BackendRef, SumSeq(chunks)))
    /\ UNCHANGED <<heap, dcall, ops, logs, chunks, bvars, vvars, hvars, svars, xvars>>

\* stdout.on("error"): reject(err).
stdoutError(cause) ==
    /\ dpc = "streaming"
    /\ dpc' = "settled"
    /\ outcome' = Rejected(Err(cause, ""))
    /\ UNCHANGED <<heap, dcall, ops, logs, chunks, bvars, vvars, hvars, svars, xvars>>

StreamCauses == {"spawn gm ENOENT", "read EPIPE"}

\* ------------------------------------------------------------------------
\* The dithering engine and its callers
\* ------------------------------------------------------------------------

DitherInit ==
    /\ dpc = "idle"
    /\ dcall = NoCall
    /\ heap = [input |-> NoValue, options |-> NoOptions]
    /\ ops = <<>>
    /\ logs = <<>>
    /\ chunks = <<>>
    /\ outcome = Pending

DitherNext ==
    \/ dpc = "idle" /\ \E i \in Inputs, o \in OptionRecords : applyDithering(i, o)
    \/ \E c \in BackendCauses : toBufferFails(c)
    \/ \E r \in BackendBuffers : toBufferReturns(r)
    \/ dpc = "idle" /\ \E i \in InputBuffers, o \in OptionRecords : applyDitheringStream(i, o)
    \/ \E c \in StreamCauses : streamCallbackErr(c)
    \/ streamCallbackOk
    \/ \E n \in 0..1 : stdoutData(n)
    \/ stderrData
    \/ stdoutEnd
    \/ \E c \in StreamCauses : stdoutError(c)


\* ------------------------------------------------------------------------
\* BMPEncoder of bmp.js
\*
\* rowBytes, padding and paddedWidthBytes are multiples of 1/8 (width times
\* bitsPerPixel / 8): the fields padding8 and paddedWidthBytes8 hold them in
\* eighths of a byte, so a value v is a whole number exactly when v % 8 = 0.
\* ------------------------------------------------------------------------

\* Mutant of SUPPORTED_BITS_PER_PIXEL: 8-bit is let through.
SupportedWith8 == {1, 8, 24}

SUPPORTED_BITS_PER_PIXEL == {1, 24}

NoArgs == [width |-> 0, height |-> 0, bitsPerPixel |-> 0]

\* An object none of whose fields has been set.
NoEncoder == [width |-> 0, height |-> 0, bitsPerPixel |-> 0,
              padding8 |-> 0, paddedWidthBytes8 |-> 0]

\* Math.ceil(a / b) and Math.floor(a / b) for a >= 0, b > 0.
CeilDiv(a, b) == (a + b - 1) \div b
FloorDiv(a, b) == a \div b

\* const rowBytes = this.width * (this.bitsPerPixel / 8), in eighths.
RowBytes8(width, bitsPerPixel) == width * bitsPerPixel

\* const padding = (4 - (rowBytes % 4)) % 4, in eighths.
Padding8(rowBytes8) == (32 - (rowBytes8 % 32)) % 32

\* this.paddedWidthBytes = Math.ceil(rowBytes) + padding, in eighths.
PaddedWidthBytes8(rowBytes8) == 8 * CeilDiv(rowBytes8, 8) + Padding8(rowBytes8)

\* The fields the constructor sets once the depth is accepted.
Constructed(width, height, bitsPerPixel) ==
    [width |-> width, height |-> height, bitsPerPixel |-> bitsPerPixel,
     padding8 |-> Padding8(RowBytes8(width, bitsPerPixel)),
     paddedWidthBytes8 |-> PaddedWidthBytes8(RowBytes8(width, bitsPerPixel))]

NoResult == [kind |-> "none", header |-> <<>>, pixelData |-> <<>>, bytes |-> <<>>]

\* new BMPEncoder(width, height, bitsPerPixel)
BMPEncoder(width, height, bitsPerPixel) ==
    /\ bpc = "none"
    /\ ctorArgs' = [width |-> width, height |-> height, bitsPerPixel |-> bitsPerPixel]
    /\ IF bitsPerPixel \notin SUPPORTED_BITS_PER_PIXEL
       THEN bpc' = "threw" /\ enc' = enc
       ELSE bpc' = "constructed" /\ enc' = Constructed(width, height, bitsPerPixel)
    /\ UNCHANGED <<encData, encResult, dvars, vvars, hvars, svars, xvars>>

\* Buffer.prototype.writeUInt32LE / writeInt32LE / writeUInt16LE: the bytes
\* written for a whole value v >= 0, least significant first.  Every value the
\* model writes is far below 2^31, so no write is out of the field's range
\* (where Node would throw ERR_OUT_OF_RANGE).
U32LE(v) == <<v % 256, (v \div 256) % 256, (v \div 65536) % 256, (v \div 16777216) % 256>>
I32LE(v) == U32LE(v)
U16LE(v) == <<v % 256, (v \div 256) % 256>>

\* Mutant of HeaderSize: the palette is not counted.
HeaderSizeNoPalette(e) == 54

\* this.bitsPerPixel === 1 ? 62 : 54
HeaderSize(e) == IF e.bitsPerPixel = 1 THEN 62 ELSE 54

\* Mutant of FileSize8: the row padding is not counted.
FileSizeUnpadded8(e) == 8 * HeaderSize(e) + e.height * e.width * e.bitsPerPixel

\* const fileSize = headerSize + this.height * this.paddedWidthBytes, in eighths.
FileSize8(e) == 8 * HeaderSize(e) + e.height * e.paddedWidthBytes8

\* const imageSize = this.width * this.height * (this.bitsPerPixel / 8), in eighths.
ImageSize8(e) == e.width * e.height * e.bitsPerPixel

\* The bytes of the header; a fractional value is stored truncated.
createHeader(e) ==
    <<66, 77>>
    \o U32LE(FloorDiv(FileSize8(e), 8))
    \o U32LE(0)
    \o U32LE(HeaderSize(e))
    \o U32LE(40)
    \o I32LE(e.width)
    \o I32LE(e.height)
    \o U16LE(1)
    \o U16LE(e.bitsPerPixel)
    \o U32LE(0)
    \o U32LE(FloorDiv(ImageSize8(e), 8))
    \o I32LE(0)
    \o I32LE(0)
    \o U32LE(IF e.bitsPerPixel = 1 THEN 2 ELSE 0)
    \o U32LE(IF e.bitsPerPixel = 1 THEN 2 ELSE 0)
    \o (IF e.bitsPerPixel = 1 THEN U32LE(0) \o U32LE(16777215) ELSE <<>>)

\* imageData[i] for a 0-based index i: -1 stands for undefined (past the end).
Sample(imageData, i) == IF i + 1 <= Len(imageData) THEN imageData[i + 1] ELSE -1

\* The working state of createPixelData: the buffer, the running offset, and
\* whether a read or write has thrown ERR_OUT_OF_RANGE.
PixelState(buf, offset, threw) == [buf |-> buf, offset |-> offset, threw |-> threw]

\* Buffer.alloc(size): a fractional size is truncated.
Alloc(size8) == [i \in 1..FloorDiv(size8, 8) |-> 0]

\* 1 << b
RECURSIVE Shl1(_)
Shl1(b) == IF b = 0 THEN 1 ELSE 2 * Shl1(b - 1)

BitIsSet(byte, b) == (byte \div Shl1(b)) % 2 = 1
\* currentByte | (1 << b) and currentByte & ~(1 << b)
OrBit(byte, b) == IF BitIsSet(byte, b) THEN byte ELSE byte + Shl1(b)
AndNotBit(byte, b) == IF BitIsSet(byte, b) THEN byte - Shl1(b) ELSE byte

\* pixelData.writeUInt8(value, offset), offset in eighths: it throws when the
\* offset is not a whole number inside the buffer; undefined (NaN) is stored
\* as 0.
WriteUInt8(st, value, offset8) ==
    IF st.threw THEN st
    ELSE IF offset8 % 8 # 0 \/ offset8 \div 8 >= Len(st.buf) \/ offset8 < 0
    THEN [st EXCEPT !.threw = TRUE]
    ELSE [st EXCEPT !.buf[offset8 \div 8 + 1] = IF value < 0 THEN 0 ELSE value]

\* Mutant of MonoPixel: the sample is thresholded at mid-gray instead of
\* compared with 0xFF.
MonoPixelThreshold(e, imageData, st, y, x) ==
    LET pixel == Sample(imageData, y * e.width + x)
        byteIndex8 == (e.height - 1 - y) * e.paddedWidthBytes8 + 8 * FloorDiv(x, 8)
        bitIndex == x % 8
    IN  IF st.threw THEN st
        ELSE IF byteIndex8 % 8 # 0 \/ byteIndex8 \div 8 >= Len(st.buf)
        THEN [st EXCEPT !.threw = TRUE]
        ELSE LET currentByte == st.buf[byteIndex8 \div 8 + 1]
             IN  IF pixel >= 128
                 THEN WriteUInt8(st, OrBit(currentByte, 7 - bitIndex), byteIndex8)
                 ELSE WriteUInt8(st, AndNotBit(currentByte, 7 - bitIndex), byteIndex8)

\* One pixel of the 1-bit loop: read the byte, set or clear the bit, write it.
MonoPixel(e, imageData, st, y, x) ==
    LET pixel == Sample(imageData, y * e.width + x)
        byteIndex8 == (e.height - 1 - y) * e.paddedWidthBytes8 + 8 * FloorDiv(x, 8)
        bitIndex == x % 8
    IN  IF st.threw THEN st
        ELSE IF byteIndex8 % 8 # 0 \/ byteIndex8 \div 8 >= Len(st.buf)
        THEN [st EXCEPT !.threw = TRUE]
        ELSE LET currentByte == st.buf[byteIndex8 \div 8 + 1]
             IN  IF pixel = 255
                 THEN WriteUInt8(st, OrBit(currentByte, 7 - bitIndex), byteIndex8)
                 ELSE WriteUInt8(st, AndNotBit(currentByte, 7 - bitIndex), byteIndex8)

RECURSIVE MonoPixels(_, _, _, _, _)
MonoPixels(e, imageData, st, y, x) ==
    IF x >= e.width \/ st.threw THEN st
    ELSE MonoPixels(e, imageData, MonoPixel(e, imageData, st, y, x), y, x + 1)

\* for (let p = 0; p < this.padding; p++) pixelData.writeUInt8(0, offset++)
RECURSIVE PadRow(_, _, _)
PadRow(e, st, p) ==
    IF 8 * p >= e.padding8 \/ st.threw THEN st
    ELSE PadRow(e, [WriteUInt8(st, 0, 8 * st.offset) EXCEPT !.offset = st.offset + 1], p + 1)

RECURSIVE MonoRows(_, _, _, _)
MonoRows(e, imageData, st, y) ==
    IF y >= e.height \/ st.threw THEN st
    ELSE LET drawn == MonoPixels(e, imageData, st, y, 0)
             moved == [drawn EXCEPT !.offset = drawn.offset + CeilDiv(e.width, 8)]
         IN  MonoRows(e, imageData, PadRow(e, moved, 0), y + 1)

\* Mutant of RgbPixel: the samples are written in the source's order.
RgbPixelNoSwap(e, imageData, st, y, x) ==
    LET sourceIndex == (y * e.width + x) * 3
        r == Sample(imageData, sourceIndex)
        g == Sample(imageData, sourceIndex + 1)
        b == Sample(imageData, sourceIndex + 2)
        w1 == WriteUInt8(st, r, 8 * st.offset)
        w2 == WriteUInt8(w1, g, 8 * (st.offset + 1))
        w3 == WriteUInt8(w2, b, 8 * (st.offset + 2))
    IN  [w3 EXCEPT !.offset = st.offset + 3]

\* One pixel of the 24-bit loop: the source's r, g, b written as b, g, r.
RgbPixel(e, imageData, st, y, x) ==
    LET sourceIndex == (y * e.width + x) * 3
        r == Sample(imageData, sourceIndex)
        g == Sample(imageData, sourceIndex + 1)
        b == Sample(imageData, sourceIndex + 2)
        w1 == WriteUInt8(st, b, 8 * st.offset)
        w2 == WriteUInt8(w1, g, 8 * (st.offset + 1))
        w3 == WriteUInt8(w2, r, 8 * (st.offset + 2))
    IN  [w3 EXCEPT !.offset = st.offset + 3]

RECURSIVE RgbPixels(_, _, _, _, _)
RgbPixels(e, imageData, st, y, x) ==
    IF x >= e.width \/ st.threw THEN st
    ELSE RgbPixels(e, imageData, RgbPixel(e, imageData, st, y, x), y, x + 1)

\* Mutant of RgbRows: the rows are written first to last (y counts the rows
\* still to write, less one).
RECURSIVE RgbRowsTopDown(_, _, _, _)
RgbRowsTopDown(e, imageData, st, y) ==
    IF y < 0 \/ st.threw THEN st
    ELSE RgbRowsTopDown(e, imageData,
                        PadRow(e, RgbPixels(e, imageData, st, e.height - 1 - y, 0), 0),
                        y - 1)

\* for (let y = this.height - 1; y >= 0; y--): rows from the last to the first.
RECURSIVE RgbRows(_, _, _, _)
RgbRows(e, imageData, st, y) ==
    IF y < 0 \/ st.threw THEN st
    ELSE RgbRows(e, imageData, PadRow(e, RgbPixels(e, imageData, st, y, 0), 0), y - 1)

\* createPixelData(imageData): the final working state.
createPixelData(e, imageData) ==
    LET st0 == PixelState(Alloc(e.height * e.paddedWidthBytes8), 0, FALSE)
    IN  IF e.bitsPerPixel = 1 THEN MonoRows(e, imageData, st0, 0)
        ELSE IF e.bitsPerPixel = 24 THEN RgbRows(e, imageData, st0, e.height - 1)
        ELSE st0

\* What encode(data) does: it throws, or returns header and pixel data joined.
EncodeResult(e, data) ==
    LET header == createHeader(e)
        st == createPixelData(e, data)
    IN  IF st.threw
        THEN [kind |-> "threw", header |-> header, pixelData |-> <<>>, bytes |-> <<>>]
        ELSE [kind |-> "returned", header |-> header, pixelData |-> st.buf,
              bytes |-> header \o st.buf]

\* encoder.encode(data)
encode(data) ==
    /\ bpc = "constructed"
    /\ bpc' = "encoded"
    /\ encData' = data
    /\ encResult' = EncodeResult(enc, data)
    /\ UNCHANGED <<ctorArgs, enc, dvars, vvars, hvars, svars, xvars>>

\* ------------------------------------------------------------------------
\* The encoder's users
\* ------------------------------------------------------------------------

Widths == 1..MaxWidth
Heights == 1..MaxHeight
BitsPerPixelValues == {1, 2, 4, 8, 16, 24, 32}

\* Sample values a caller hands over: black, white, and two grays.
SampleValues == <<0, 255, 128, 254>>

\* A raw sample buffer of n bytes: samples come in runs of the same value, run
\* k (counted from 0) holding SampleValues[(k * mul + add) mod 4].
RawData(n, mul, add, run) ==
    [i \in 1..n |-> SampleValues[((((i - 1) \div run) * mul + add) % 4) + 1]]

\* The buffers handed to encode for an encoder e: width * height * channels
\* samples, or some samples fewer.
Channels(e) == IF e.bitsPerPixel = 1 THEN 1 ELSE 3
DataFor(e) ==
    {RawData(e.width * e.height * Channels(e) - missing, mul, add, run) :
        missing \in {0, 1}, mul \in {1, 3}, add \in {0, 1}, run \in {1, 3}}

BmpInit ==
    /\ bpc = "none"
    /\ ctorArgs = NoArgs
    /\ enc = NoEncoder
    /\ encData = <<>>
    /\ encResult = NoResult

BmpNext ==
    \/ \E w \in Widths, h \in Heights, b \in BitsPerPixelValues : BMPEncoder(w, h, b)
    \/ \E d \in DataFor(enc) : encode(d)

\* ------------------------------------------------------------------------
\* validateOptions of lib/dithering.js
\* ------------------------------------------------------------------------

\* The property values a caller's options object may carry: besides the values
\* of applyDithering's callers, an empty-string method and the depths 0 and 5.
ValidateMethodValues == MethodValues \cup {""}
ValidateBitDepthValues == BitDepthValues \cup {0, 5}
ValidateRecords ==
    [method : Opt(ValidateMethodValues), bitDepth : Opt(ValidateBitDepthValues),
     gammaCorrection : {<<>>},
     blackLevel : Opt(LevelValues), whiteLevel : Opt(LevelValues)]

\* JavaScript truthiness of options.method and options.bitDepth: undefined,
\* the empty string and 0 are falsy.
MethodTruthy(f) == Given(f) /\ f[1] # ""
BitDepthTruthy(f) == Given(f) /\ f[1] # 0

NoValidation == [kind |-> "none", val |-> FALSE, msg |-> ""]

\* The message of the first check of validateOptions that throws, "" when
\* none does.
ValidateMessage(options) ==
    LET blackLevel == Default(options.blackLevel, 0)
        whiteLevel == Default(options.whiteLevel, 100)
    IN  IF MethodTruthy(options.method)
           /\ options.method[1] \notin {"floyd-steinberg", "ordered", "none"}
        THEN "Invalid method"
        ELSE IF BitDepthTruthy(options.bitDepth) /\ options.bitDepth[1] \notin {1, 2, 4, 8}
        THEN "Invalid bit depth"
        ELSE IF blackLevel < 0 \/ blackLevel > 100
        THEN "blackLevel must be between 0 and 100"
        ELSE IF whiteLevel < 0 \/ whiteLevel > 100
        THEN "whiteLevel must be between 0 and 100"
        ELSE IF blackLevel >= whiteLevel THEN "blackLevel must be less than whiteLevel"
        ELSE ""

\* validateOptions(options): it throws the first message, or returns true.
validateOptions(options) ==
    /\ vpc = "none"
    /\ vpc' = "done"
    /\ vcall' = options
    /\ vresult' = IF ValidateMessage(options) # ""
                  THEN [kind |-> "threw", val |-> FALSE, msg |-> ValidateMessage(options)]
                  ELSE [kind |-> "returned", val |-> TRUE, msg |-> ""]
    /\ UNCHANGED <<dvars, bvars, hvars, svars, xvars>>

ValidateInit ==
    /\ vpc = "none"
    /\ vcall = NoOptions
    /\ vresult = NoValidation

ValidateNext == \E o \in ValidateRecords : validateOptions(o)

\* ------------------------------------------------------------------------
\* RequestHandler (request queuing) and Browser.busy
\*
\* Node runs one callback at a time.  An action below is one run of JavaScript
\* from where a callback or continuation starts to its next await.  HTTP
\* requests, timers and cron ticks start from the event loop, which first
\* drains the microtask queue: those actions wait for micro = <<>>.  The
\* continuation of an await on a settled promise is a microtask: it runs, in
\* queue order, before any of them.  A browser call may end on an I/O event
\* or within a drain, so its end is not tied to the queue.
\* ------------------------------------------------------------------------

Tasks == 1..MaxTasks

NoTask == [kind |-> "none", pc |-> "none", viewportOk |-> TRUE, next |-> FALSE,
           shotPage |-> 0]

\* The first invocation not yet made.
Fresh(t) == tasks[t].pc = "none" /\ \A u \in Tasks : u < t => tasks[u].pc # "none"

\* clearTimeout(id): the timeout named id, if still armed, is disarmed.
RECURSIVE ClearTimeout(_, _)
ClearTimeout(armed, id) ==
    IF armed = <<>> THEN <<>>
    ELSE IF Head(armed) = id THEN Tail(armed)
    ELSE <<Head(armed)>> \o ClearTimeout(Tail(armed), id)

\* Mutant of MarkedAccess: the previous timeout is not cleared.
MarkedAccessNoClear ==
    IF keepOpen
    THEN [lastAccess |-> now, browserCleanupTimer |-> browserCleanupTimer,
          armedTimers |-> armedTimers]
    ELSE [lastAccess |-> now, browserCleanupTimer |-> now + BROWSER_TIMEOUT + 100,
          armedTimers |-> Append(armedTimers, now + BROWSER_TIMEOUT + 100)]

\* _markBrowserAccessed(): the fields and the armed timeouts it leaves.
MarkedAccess ==
    IF keepOpen
    THEN [lastAccess |-> now, browserCleanupTimer |-> browserCleanupTimer,
          armedTimers |-> ClearTimeout(armedTimers, browserCleanupTimer)]
    ELSE [lastAccess |-> now, browserCleanupTimer |-> now + BROWSER_TIMEOUT + 100,
          armedTimers |-> Append(ClearTimeout(armedTimers, browserCleanupTimer),
                                 now + BROWSER_TIMEOUT + 100)]

\* Mutant of Released: finally clears the flag and calls no resolver.
ReleasedNoWake(tk, mq, t) ==
    [tasks |-> [tk EXCEPT ![t].pc = "done"], pending |-> pending, micro |-> mq]

\* Mutant of Released: finally calls the newest queued resolver (pop).
ReleasedNewest(tk, mq, t) ==
    IF pending # <<>>
    THEN [tasks |-> [tk EXCEPT ![t].pc = "done", ![pending[Len(pending)]].pc = "woken"],
          pending |-> SubSeq(pending, 1, Len(pending) - 1),
          micro |-> Append(mq, pending[Len(pending)])]
    ELSE [tasks |-> [tk EXCEPT ![t].pc = "done"], pending |-> pending, micro |-> mq]

\* The finally block of the three handlers: this.busy = false, then the
\* oldest queued resolver, if any, is called: its waiter's continuation joins
\* the microtask queue.  tk and mq are the tasks and the microtask queue as
\* the handler left them.
Released(tk, mq, t) ==
    IF pending # <<>>
    THEN [tasks |-> [tk EXCEPT ![t].pc = "done", ![Head(pending)].pc = "woken"],
          pending |-> Tail(pending), micro |-> Append(mq, Head(pending))]
    ELSE [tasks |-> [tk EXCEPT ![t].pc = "done"], pending |-> pending, micro |-> mq]

Release(tk, mq, t) ==
    /\ hbusy' = FALSE
    /\ lastAccess' = MarkedAccess.lastAccess
    /\ browserCleanupTimer' = MarkedAccess.browserCleanupTimer
    /\ armedTimers' = MarkedAccess.armedTimers
    /\ lastFinish' = now
    /\ tasks' = Released(tk, mq, t).tasks
    /\ pending' = Released(tk, mq, t).pending
    /\ micro' = Released(tk, mq, t).micro

\* this.busy = true, then the call of browser.navigatePage: it throws
\* "Browser is busy" (the handler sees the rejection in a microtask), or sets
\* Browser.busy and starts the navigation.
Navigate(tk, mq, t) ==
    /\ hbusy' = TRUE
    /\ UNCHANGED accessVars
    /\ pending' = pending
    /\ IF bbusy
       THEN /\ busyErrors' = TRUE
            /\ tasks' = [tk EXCEPT ![t].pc = "navFailed"]
            /\ micro' = Append(mq, t)
            /\ bbusy' = bbusy
       ELSE /\ busyErrors' = busyErrors
            /\ tasks' = [tk EXCEPT ![t].pc = "navigating"]
            /\ micro' = mq
            /\ bbusy' = TRUE

\* After this.busy = true in the HTTP handler: a bad viewport answers 400 and
\* returns through finally; otherwise the page is navigated.
Handle(tk, mq, t) ==
    IF tk[t].kind = "request" /\ ~tk[t].viewportOk
    THEN Release(tk, mq, t) /\ UNCHANGED <<bbusy, busyErrors>>
    ELSE Navigate(tk, mq, t)

\* Mutant of Enter: the handler does not queue behind a busy flag.
EnterNoQueue(tk, t) == Handle(tk, micro, t)

\* if (this.busy) await new Promise((resolve) => this.pending.push(resolve));
\* this.busy = true; ...
Enter(tk, t) ==
    IF hbusy
    THEN /\ pending' = Append(pending, t)
         /\ tasks' = [tk EXCEPT ![t].pc = "waiting"]
         /\ UNCHANGED <<hbusy, micro, bbusy, busyErrors, accessVars>>
    ELSE Handle(tk, micro, t)

\* An HTTP screenshot request arrives: handleRequest up to its first await.
handleRequest(t, viewportOk, next) ==
    /\ micro = <<>>
    /\ Fresh(t)
    /\ Enter([tasks EXCEPT ![t] = [NoTask EXCEPT !.kind = "request",
                                                 !.viewportOk = viewportOk,
                                                 !.next = next]], t)
    /\ UNCHANGED <<timers, page, clockVars, dvars, bvars, vvars, svars, xvars>>

\* The scheduler's cron tick calls takeScreenshot(params).
takeScreenshot(t) ==
    /\ micro = <<>>
    /\ Fresh(t)
    /\ Enter([tasks EXCEPT ![t] = [NoTask EXCEPT !.kind = "scheduled"]], t)
    /\ UNCHANGED <<timers, page, clockVars, dvars, bvars, vvars, svars, xvars>>

\* A warm-up timer fires: prepareNextRequest skips when busy, else navigates.
prepareNextRequest(t) ==
    /\ micro = <<>>
    /\ timers > 0
    /\ Fresh(t)
    /\ timers' = timers - 1
    /\ IF hbusy
       THEN /\ tasks' = [tasks EXCEPT ![t] = [NoTask EXCEPT !.kind = "next", !.pc = "done"]]
            /\ UNCHANGED <<hbusy, pending, micro, bbusy, busyErrors, accessVars>>
       ELSE Navigate([tasks EXCEPT ![t] = [NoTask EXCEPT !.kind = "next"]], micro, t)
    /\ UNCHANGED <<page, clockVars, dvars, bvars, vvars, svars, xvars>>

\* The queued resolver was called: the waiter continues after its await.
resumeWaiter(t) ==
    /\ micro # <<>> /\ Head(micro) = t
    /\ tasks[t].pc = "woken"
    /\ Handle(tasks, Tail(micro), t)
    /\ UNCHANGED <<timers, page, clockVars, dvars, bvars, vvars, svars, xvars>>

\* Browser.navigatePage ends (finally: this.busy = false), with its result or
\* with an error; the page then shows the task's dashboard, or nothing known.
navigateDone(t, ok) ==
    /\ tasks[t].pc = "navigating"
    /\ bbusy' = FALSE
    /\ page' = IF ok THEN t ELSE 0
    /\ tasks' = [tasks EXCEPT ![t].pc = IF ok THEN "navigated" ELSE "navFailed"]
    /\ micro' = Append(micro, t)
    /\ UNCHANGED <<hbusy, pending, timers, busyErrors, accessVars, clockVars, dvars, bvars, vvars, svars, xvars>>

\* The handler continues after await navigatePage: prepareNextRequest is
\* finished; the others call browser.screenshotPage, which throws "Browser is
\* busy" or sets Browser.busy and captures the page as it is.
afterNavigate(t) ==
    /\ micro # <<>> /\ Head(micro) = t
    /\ tasks[t].pc = "navigated"
    /\ IF tasks[t].kind = "next"
       THEN Release(tasks, Tail(micro), t) /\ UNCHANGED <<bbusy, busyErrors>>
       ELSE /\ UNCHANGED <<hbusy, pending, accessVars>>
            /\ IF bbusy
               THEN /\ busyErrors' = TRUE
                    /\ tasks' = [tasks EXCEPT ![t].pc = "shotFailed"]
                    /\ micro' = Append(Tail(micro), t)
                    /\ bbusy' = bbusy
               ELSE /\ busyErrors' = busyErrors
                    /\ tasks' = [tasks EXCEPT ![t].pc = "shooting", ![t].shotPage = page]
                    /\ micro' = Tail(micro)
                    /\ bbusy' = TRUE
    /\ UNCHANGED <<timers, page, clockVars, dvars, bvars, vvars, svars, xvars>>

\* await navigatePage threw: 404 or rethrow (HTTP), catch (warm-up), throw
\* (scheduler); each leaves through finally.
afterNavigateFailed(t) ==
    /\ micro # <<>> /\ Head(micro) = t
    /\ tasks[t].pc = "navFailed"
    /\ Release(tasks, Tail(micro), t)
    /\ UNCHANGED <<timers, bbusy, busyErrors, page, clockVars, dvars, bvars, vvars, svars, xvars>>

\* Browser.screenshotPage ends (finally: this.busy = false).
screenshotDone(t, ok) ==
    /\ tasks[t].pc = "shooting"
    /\ bbusy' = FALSE
    /\ tasks' = [tasks EXCEPT ![t].pc = IF ok THEN "shot" ELSE "shotFailed"]
    /\ micro' = Append(micro, t)
    /\ UNCHANGED <<hbusy, pending, timers, page, busyErrors, accessVars, clockVars, dvars, bvars, vvars, svars, xvars>>

\* The handler continues after await screenshotPage: the image is sent; an
\* HTTP request with next arms a warm-up timer; then finally.
afterScreenshot(t) ==
    /\ micro # <<>> /\ Head(micro) = t
    /\ tasks[t].pc = "shot"
    /\ timers' = IF tasks[t].kind = "request" /\ tasks[t].next /\ timers < MaxTimers
                 THEN timers + 1 ELSE timers
    /\ Release(tasks, Tail(micro), t)
    /\ UNCHANGED <<bbusy, busyErrors, page, clockVars, dvars, bvars, vvars, svars, xvars>>

\* await screenshotPage threw: the handler leaves through finally.
afterScreenshotFailed(t) ==
    /\ micro # <<>> /\ Head(micro) = t
    /\ tasks[t].pc = "shotFailed"
    /\ Release(tasks, Tail(micro), t)
    /\ UNCHANGED <<timers, bbusy, busyErrors, page, clockVars, dvars, bvars, vvars, svars, xvars>>

\* Time passes.
Tick(d) ==
    /\ now + d <= MaxTime
    /\ now' = now + d
    /\ UNCHANGED <<hbusy, pending, micro, tasks, timers, bbusy, page, busyErrors,
                   keepOpen, cleanups, accessVars, dvars, bvars, vvars, svars, xvars>>

\* The i-th armed clean-up timeout fires: _runBrowserCleanupCheck returns when
\* busy, arms a new timeout when the browser was used less than
\* BROWSER_TIMEOUT ago, and otherwise starts browser.cleanup().
runBrowserCleanupCheck(i) ==
    LET fired == SubSeq(armedTimers, 1, i - 1) \o SubSeq(armedTimers, i + 1, Len(armedTimers))
        idleTime == now - lastAccess
        again == now + (BROWSER_TIMEOUT - idleTime) + 100
    IN  /\ micro = <<>>
        /\ i \in 1..Len(armedTimers)
        /\ now >= armedTimers[i]
        /\ IF hbusy
           THEN /\ armedTimers' = fired
                /\ UNCHANGED <<browserCleanupTimer, cleanups>>
           ELSE IF idleTime < BROWSER_TIMEOUT
           THEN /\ armedTimers' = Append(fired, again)
                /\ browserCleanupTimer' = again
                /\ UNCHANGED cleanups
           ELSE /\ armedTimers' = fired
                /\ cleanups' = cleanups + 1
                /\ UNCHANGED browserCleanupTimer
        /\ UNCHANGED <<hbusy, pending, micro, tasks, timers, bbusy, page, busyErrors,
                       now, keepOpen, lastAccess, lastFinish, dvars, bvars, vvars, svars, xvars>>

HandlerInit ==
    /\ hbusy = FALSE
    /\ pending = <<>>
    /\ micro = <<>>
    /\ tasks = [t \in Tasks |-> NoTask]
    /\ timers = 0
    /\ bbusy = FALSE
    /\ page = 0
    /\ busyErrors = FALSE
    /\ now = 0
    /\ keepOpen \in BOOLEAN
    /\ cleanups = 0
    /\ lastAccess = 0
    /\ browserCleanupTimer = -1
    /\ armedTimers = <<>>
    /\ lastFinish = 0

HandlerNext ==
    \/ \E t \in Tasks, v \in BOOLEAN, n \in BOOLEAN : handleRequest(t, v, n)
    \/ \E t \in Tasks : takeScreenshot(t)
    \/ \E t \in Tasks : prepareNextRequest(t)
    \/ \E t \in Tasks : resumeWaiter(t)
    \/ \E t \in Tasks, ok \in BOOLEAN : navigateDone(t, ok)
    \/ \E t \in Tasks : afterNavigate(t)
    \/ \E t \in Tasks : afterNavigateFailed(t)
    \/ \E t \in Tasks, ok \in BOOLEAN : screenshotDone(t, ok)
    \/ \E t \in Tasks : afterScreenshot(t)
    \/ \E t \in Tasks : afterScreenshotFailed(t)

\* The event loop runs the continuation at the head of the microtask queue.
Microtask ==
    \E t \in Tasks :
        \/ resumeWaiter(t)
        \/ afterNavigate(t)
        \/ afterNavigateFailed(t)
        \/ afterScreenshot(t)
        \/ afterScreenshotFailed(t)

\* The browser operation in progress returns or throws.
BrowserSettles ==
    \E t \in Tasks, ok \in BOOLEAN : navigateDone(t, ok) \/ screenshotDone(t, ok)

\* The handler for the invocations followed to their end.
LiveTasks == 1..MaxLiveTasks

LiveNext ==
    \/ \E t \in LiveTasks, v \in BOOLEAN, n \in BOOLEAN : handleRequest(t, v, n)
    \/ \E t \in LiveTasks : takeScreenshot(t)
    \/ \E t \in LiveTasks : prepareNextRequest(t)
    \/ Microtask
    \/ BrowserSettles

\* The handler under an event loop that keeps running queued continuations
\* and a browser whose operations all end.
HandlerFairness == WF_vars(Microtask) /\ WF_vars(BrowserSettles)

\* The handler with its clean-up timer and the clock, for a few invocations.
CleanupTasks == 1..MaxCleanupTasks

TickSteps == {15000, BROWSER_TIMEOUT + 100}

CleanupNext ==
    \/ \E t \in CleanupTasks, n \in BOOLEAN : handleRequest(t, TRUE, n)
    \/ \E t \in CleanupTasks : takeScreenshot(t)
    \/ \E t \in CleanupTasks : prepareNextRequest(t)
    \/ \E t \in CleanupTasks : resumeWaiter(t)
    \/ \E t \in CleanupTasks : navigateDone(t, TRUE)
    \/ \E t \in CleanupTasks : afterNavigate(t)
    \/ \E t \in CleanupTasks : screenshotDone(t, TRUE)
    \/ \E t \in CleanupTasks : afterScreenshot(t)
    \/ \E d \in TickSteps : Tick(d)
    \/ \E i \in 1..Len(armedTimers) : runBrowserCleanupCheck(i)

\* ------------------------------------------------------------------------
\* Schedules: the store (lib/scheduleStore.js), the schedule API of the
\* request handler, and the two schedulers (the add-on's, which reloads the
\* store, and the stand-alone one, which is configured once)
\* ------------------------------------------------------------------------

\* The cron expressions in use: every minute, every five minutes, and one
\* that node-cron rejects.
CronValues == {"m1", "m5", "bad"}

\* cron.validate(expression), of node-cron.
cronValidate(expression) == expression \in {"m1", "m5"}

\* webhook_url: "" stands for a missing (falsy) one.
UrlValues == {"", "hook"}

\* A stored schedule.  webhook_url stands for every field a run reads
\* (dashboard_path, viewport, format, dithering, ...): runSchedule reads them
\* all from the same object.
Schedule(id, enabled, cron, url) ==
    [id |-> id, enabled |-> enabled, cron |-> cron, webhook_url |-> url]

NoSchedule == Schedule(0, FALSE, "", "")

ScheduleIds == 1..MaxSchedules

\* schedules.json as the add-on finds it when it starts.
InitialSchedules == <<Schedule(1, TRUE, "m1", ""), Schedule(2, TRUE, "m5", "hook")>>

\* A request body that JSON.parse rejects (or that cannot be read).
BadJson == [json |-> FALSE]

\* The parsed body of PUT /api/schedules/:id: any subset of the fields.
Updates ==
    [enabled : {<<>>, <<TRUE>>, <<FALSE>>},
     cron : {<<>>} \cup {<<c>> : c \in CronValues},
     webhook_url : {<<>>} \cup {<<u>> : u \in UrlValues}]

Update(enabled, cron, url) == [enabled |-> enabled, cron |-> cron, webhook_url |-> url]

\* The updates followed while the scheduler reloads: one field at a time.
ReloadUpdates ==
    {Update(<<>>, <<>>, <<"hook">>), Update(<<>>, <<"m5">>, <<>>),
     Update(<<>>, <<"bad">>, <<>>), Update(<<FALSE>>, <<>>, <<>>)}

\* The parsed bodies of POST /api/schedules followed on the store.
StoreBodies == {[enabled |-> TRUE, cron |-> "m1", webhook_url |-> "hook"]}

StoreUpdates == {Update(<<>>, <<>>, <<"hook">>), Update(<<FALSE>>, <<>>, <<>>)}

\* Bodies that carry an id of their own: that of a stored schedule.
IdBodies == {[enabled |-> TRUE, cron |-> "m1", webhook_url |-> "hook", id |-> 1]}

IdUpdates == {[enabled |-> <<>>, cron |-> <<>>, webhook_url |-> <<"hook">>, id |-> 2]}

\* loadSchedules(): the parsed file.
loadSchedules == store

\* schedules.findIndex((s) => s.id === id), counted from 1; 0 for JavaScript's -1.
findIndex(schedules, id) ==
    IF \E i \in 1..Len(schedules) : schedules[i].id = id
    THEN CHOOSE i \in 1..Len(schedules) :
            /\ schedules[i].id = id
            /\ \A j \in 1..(i - 1) : schedules[j].id # id
    ELSE 0

\* What a store function did: ret is its return value, saved the list it
\* handed to saveSchedules (<<>>: saveSchedules was not called, <<list>>: it was).
StoreResult(ret, saved) == [ret |-> ret, saved |-> saved]

\* The id field of a parsed body: <<>> when it has none.
PayloadId(body) == IF "id" \in DOMAIN body THEN <<body.id>> ELSE <<>>

\* The value a property has in an object literal that sets it more than once
\* (by spreads or by name): the last one set; values lists them in order,
\* <<>> for a spread object without the property.
RECURSIVE LastSet(_)
LastSet(values) ==
    IF values[Len(values)] # <<>> THEN values[Len(values)][1]
    ELSE LastSet(SubSeq(values, 1, Len(values) - 1))

\* generateId(): a value no schedule has had.
generateId == nextId

\* Mutant of createSchedule: { id: generateId(), ...schedule }.
createSchedulePayloadLast(schedule) ==
    LET schedules == loadSchedules
        newSchedule == Schedule(LastSet(<< <<generateId>>, PayloadId(schedule) >>),
                                schedule.enabled, schedule.cron, schedule.webhook_url)
    IN StoreResult(<<newSchedule>>, <<Append(schedules, newSchedule)>>)

\* createSchedule(schedule): { ...schedule, id: generateId(), ... } is pushed.
createSchedule(schedule) ==
    LET schedules == loadSchedules
        newSchedule == Schedule(LastSet(<< PayloadId(schedule), <<generateId>> >>),
                                schedule.enabled, schedule.cron, schedule.webhook_url)
    IN StoreResult(<<newSchedule>>, <<Append(schedules, newSchedule)>>)

\* { ...schedules[index], ...updates, id }: id is the id looked up, which is
\* schedules[index].id.
Spread(schedule, updates) ==
    Schedule(LastSet(<< <<schedule.id>>, PayloadId(updates), <<schedule.id>> >>),
             IF updates.enabled = <<>> THEN schedule.enabled ELSE updates.enabled[1],
             IF updates.cron = <<>> THEN schedule.cron ELSE updates.cron[1],
             IF updates.webhook_url = <<>> THEN schedule.webhook_url
                                           ELSE updates.webhook_url[1])

\* Mutant of updateSchedule: an unknown id is stored as a new schedule.
updateScheduleUpsert(id, updates) ==
    LET schedules == loadSchedules
        index == findIndex(schedules, id)
    IN IF index = 0
       THEN StoreResult(<<>>, <<Append(schedules, Spread(Schedule(id, FALSE, "", ""), updates))>>)
       ELSE StoreResult(<<Spread(schedules[index], updates)>>,
                        <<[schedules EXCEPT ![index] = Spread(schedules[index], updates)]>>)

\* updateSchedule(id, updates): ret is <<>> for null, <<schedule>> otherwise.
updateSchedule(id, updates) ==
    LET schedules == loadSchedules
        index == findIndex(schedules, id)
    IN IF index = 0
       THEN StoreResult(<<>>, <<>>)
       ELSE StoreResult(<<Spread(schedules[index], updates)>>,
                        <<[schedules EXCEPT ![index] = Spread(schedules[index], updates)]>>)

\* schedules.splice(index, 1)
Splice(schedules, index) ==
    [i \in 1..(Len(schedules) - 1) |-> IF i < index THEN schedules[i] ELSE schedules[i + 1]]

\* deleteSchedule(id)
deleteSchedule(id) ==
    LET schedules == loadSchedules
        index == findIndex(schedules, id)
    IN IF index = 0
       THEN StoreResult(FALSE, <<>>)
       ELSE StoreResult(TRUE, <<Splice(schedules, index)>>)

\* A request to the schedule API and its answer.  json: the body parsed;
\* status 0: no answer was written (the handler threw); ret: the schedule in
\* the answer; saved: saveSchedules was called.  seq alternates with each
\* request served, so that two equal requests in a row are two values.
Reply(method, id, json, status, ret, saved) ==
    [method |-> method, id |-> id, json |-> json, status |-> status, ret |-> ret,
     saved |-> saved, seq |-> 1 - reply.seq]

NoReply ==
    [method |-> "", id |-> 0, json |-> FALSE, status |-> 0, ret |-> <<>>, saved |-> FALSE,
     seq |-> 0]

\* handleSchedulesAPI, method POST: JSON.parse, createSchedule, 201; whatever
\* is thrown (by the parser, or by saveSchedules when fsOk is false) gives 400.
handleSchedulesAPI(body, fsOk) ==
    /\ nextId <= MaxSchedules
    /\ IF body = BadJson
       THEN /\ reply' = Reply("POST", 0, body # BadJson, 400, <<>>, FALSE)
            /\ UNCHANGED <<store, nextId, reloaded>>
       ELSE LET created == createSchedule(body)
            IN IF fsOk
               THEN /\ store' = created.saved[1]
                    /\ nextId' = nextId + 1
                    /\ reloaded' = FALSE
                    /\ reply' = Reply("POST", nextId, body # BadJson, 201, created.ret, TRUE)
               ELSE /\ reply' = Reply("POST", 0, body # BadJson, 400, <<>>, TRUE)
                    /\ UNCHANGED <<store, nextId, reloaded>>
    /\ UNCHANGED <<jobs, pjobs, runs, sbusy, shot, dvars, bvars, vvars, hvars, engine, nvars, cvars, zvars, live>>
    /\ sent' = PayloadId(body)

\* handleScheduleAPI: PUT and DELETE on /api/schedules/:id, 405 for the rest.
handleScheduleAPI(method, id, body, fsOk) ==
    /\ IF method = "PUT"
       THEN IF body = BadJson
            THEN /\ reply' = Reply("PUT", id, body # BadJson, 400, <<>>, FALSE)
                 /\ UNCHANGED <<store, reloaded>>
            ELSE LET updated == updateSchedule(id, body)
                 IN IF updated.saved # <<>> /\ ~fsOk
                    THEN /\ reply' = Reply("PUT", id, body # BadJson, 400, <<>>, TRUE)
                         /\ UNCHANGED <<store, reloaded>>
                    ELSE IF updated.ret = <<>>
                    THEN /\ reply' = Reply("PUT", id, body # BadJson, 404, <<>>, updated.saved # <<>>)
                         /\ store' = IF updated.saved = <<>> THEN store ELSE updated.saved[1]
                         /\ reloaded' = (reloaded /\ updated.saved = <<>>)
                    ELSE /\ reply' = Reply("PUT", id, body # BadJson, 200, updated.ret, updated.saved # <<>>)
                         /\ store' = IF updated.saved = <<>> THEN store ELSE updated.saved[1]
                         /\ reloaded' = (reloaded /\ updated.saved = <<>>)
       ELSE IF method = "DELETE"
       THEN LET deleted == deleteSchedule(id)
            IN IF deleted.saved # <<>> /\ ~fsOk
               THEN /\ reply' = Reply("DELETE", id, body # BadJson, 0, <<>>, TRUE)
                    /\ UNCHANGED <<store, reloaded>>
               ELSE IF ~deleted.ret
               THEN /\ reply' = Reply("DELETE", id, body # BadJson, 404, <<>>, deleted.saved # <<>>)
                    /\ store' = IF deleted.saved = <<>> THEN store ELSE deleted.saved[1]
                    /\ reloaded' = (reloaded /\ deleted.saved = <<>>)
               ELSE /\ reply' = Reply("DELETE", id, body # BadJson, 200, <<>>, deleted.saved # <<>>)
                    /\ store' = IF deleted.saved = <<>> THEN store ELSE deleted.saved[1]
                    /\ reloaded' = (reloaded /\ deleted.saved = <<>>)
       ELSE /\ reply' = Reply(method, id, body # BadJson, 405, <<>>, FALSE)
            /\ UNCHANGED <<store, reloaded>>
    /\ UNCHANGED <<nextId, jobs, pjobs, runs, sbusy, shot, dvars, bvars, vvars, hvars, engine, nvars, cvars, zvars, live>>
    /\ sent' = PayloadId(body)

\* A cron job of the add-on's scheduler: job.cronExpression and the schedule
\* object its callback closes over.
Job(schedule) == [cronExpression |-> schedule.cron, schedule |-> schedule]

NoJob == [cronExpression |-> "", schedule |-> NoSchedule]

\* The first loop of loadAndSchedule, from the i-th schedule on.
RECURSIVE ScheduleFrom(_, _, _)
ScheduleFrom(schedules, i, js) ==
    IF i > Len(schedules)
    THEN js
    ELSE LET schedule == schedules[i]
             existingJob == js[schedule.id]
         IN ScheduleFrom(schedules, i + 1,
                IF ~schedule.enabled
                THEN [js EXCEPT ![schedule.id] = NoJob]
                ELSE IF existingJob # NoJob /\ existingJob.cronExpression = schedule.cron
                THEN js
                ELSE IF ~cronValidate(schedule.cron)
                THEN js
                ELSE [js EXCEPT ![schedule.id] = Job(schedule)])

\* Mutant of ActiveIds: every id counts as active, so that the second loop
\* removes nothing.
ActiveIdsEvery(schedules) == ScheduleIds

\* activeIds after the first loop.
ActiveIds(schedules) == {schedules[i].id : i \in {k \in 1..Len(schedules) : schedules[k].enabled}}

\* job.stop(): the task leaves the running ones.
RECURSIVE StopJob(_, _)
StopJob(lv, job) ==
    IF lv = <<>> THEN <<>>
    ELSE IF Head(lv) = job THEN Tail(lv)
    ELSE <<Head(lv)>> \o StopJob(Tail(lv), job)

\* The running cron tasks after the first loop of loadAndSchedule, from the
\* i-th schedule on: stop() for a disabled schedule's job, and stop() of the
\* existing job before cron.schedule when the cron expression has changed.
RECURSIVE LiveFrom(_, _, _, _)
LiveFrom(schedules, i, js, lv) ==
    IF i > Len(schedules)
    THEN lv
    ELSE LET schedule == schedules[i]
             existingJob == js[schedule.id]
             stopped == IF existingJob # NoJob THEN StopJob(lv, existingJob) ELSE lv
         IN LiveFrom(schedules, i + 1, ScheduleFrom(SubSeq(schedules, i, i), 1, js),
                IF ~schedule.enabled
                THEN stopped
                ELSE IF existingJob # NoJob /\ existingJob.cronExpression = schedule.cron
                THEN lv
                ELSE IF ~cronValidate(schedule.cron)
                THEN lv
                ELSE Append(stopped, Job(schedule)))

\* The running cron tasks after the second loop: job.stop() for each job whose
\* id is not active.
RECURSIVE SweptFrom(_, _, _, _)
SweptFrom(id, js, active, lv) ==
    IF id > MaxSchedules
    THEN lv
    ELSE SweptFrom(id + 1, js, active,
                   IF js[id] # NoJob /\ id \notin active THEN StopJob(lv, js[id]) ELSE lv)

\* loadAndSchedule(), called by start() and then every 60 s.
loadAndSchedule ==
    /\ LET schedules == loadSchedules
           scheduled == ScheduleFrom(schedules, 1, jobs)
       IN /\ jobs' = [id \in ScheduleIds |->
                        IF id \in ActiveIds(schedules) THEN scheduled[id] ELSE NoJob]
          /\ live' = SweptFrom(1, scheduled, ActiveIds(schedules),
                               LiveFrom(schedules, 1, jobs, live))
    /\ reloaded' = TRUE
    /\ UNCHANGED <<store, nextId, pjobs, runs, sbusy, reply, shot, dvars, bvars, vvars, hvars,
                   engine, nvars, cvars, zvars, sent>>

\* One invocation of a job's callback: kind none (not started), addon
\* (runSchedule) or puppet (executeScheduledJob); schedule is the object the
\* callback was given; pc the await it is at; thrown what was thrown inside its
\* try block, logged what its handlers wrote with console.error, result how
\* the promise of the async function settled.
RunIds == 1..MaxRuns

NoRun ==
    [kind |-> "none", schedule |-> NoSchedule, pc |-> "none", thrown |-> "", logged |-> "",
     result |-> "pending"]

StartedRun(kind, schedule, pc) ==
    [kind |-> kind, schedule |-> schedule, pc |-> pc, thrown |-> "", logged |-> "",
     result |-> "pending"]

HasFreeRun == \E r \in RunIds : runs[r].kind = "none"

FreeRun ==
    CHOOSE r \in RunIds : runs[r].kind = "none" /\ \A q \in 1..(r - 1) : runs[q].kind # "none"

\* throw inside the try block
Thrown(run, err) == [run EXCEPT !.thrown = err]

\* the async function returns
Completed(run) == [run EXCEPT !.pc = "done", !.result = "fulfilled"]

\* runSchedule's catch: console.error(..., err.message), then the function returns.
RunCatch(run) == Completed([run EXCEPT !.logged = run.thrown])

\* uploadToWebhook's catch in the add-on: console.error, nothing rethrown.
WebhookCatch(run) == [run EXCEPT !.logged = run.thrown]

\* runSchedule(schedule) as the job of schedule id calls it, up to its first
\* await: the parameters are built and screenshotFn(params) is called.
runSchedule(id) ==
    /\ jobs[id] # NoJob
    /\ HasFreeRun
    /\ runs' = [runs EXCEPT ![FreeRun] = StartedRun("addon", jobs[id].schedule, "screenshot")]
    /\ UNCHANGED <<store, nextId, jobs, pjobs, sbusy, reply, reloaded, shot, dvars, bvars, vvars, hvars, xvars>>

\* screenshotFn(params) settles: rejected, the catch runs; resolved, the file
\* is written (fsOk: writeFileSync returns) and the upload starts when
\* schedule.webhook_url is truthy.
screenshotFnSettles(r, ok, fsOk) ==
    /\ runs[r].kind = "addon"
    /\ runs[r].pc = "screenshot"
    /\ runs' = [runs EXCEPT ![r] =
                  IF ~ok THEN RunCatch(Thrown(runs[r], "screenshot"))
                  ELSE IF ~fsOk THEN RunCatch(Thrown(runs[r], "write"))
                  ELSE IF runs[r].schedule.webhook_url # "" THEN [runs[r] EXCEPT !.pc = "upload"]
                  ELSE Completed(runs[r])]
    /\ UNCHANGED <<store, nextId, jobs, pjobs, sbusy, reply, reloaded, shot, dvars, bvars, vvars, hvars, xvars>>

\* The add-on's fetch settles: "ok", "http" (response.ok false) or "network"
\* (fetch rejected).  uploadToWebhook returns either way and runSchedule ends.
uploadToWebhookSettles(r, res) ==
    /\ runs[r].kind = "addon"
    /\ runs[r].pc = "upload"
    /\ runs' = [runs EXCEPT ![r] =
                  IF res = "ok" THEN Completed(runs[r])
                  ELSE Completed(WebhookCatch(Thrown(runs[r], "upload")))]
    /\ UNCHANGED <<store, nextId, jobs, pjobs, sbusy, reply, reloaded, shot, dvars, bvars, vvars, hvars, xvars>>

\* A schedule of the stand-alone scheduler's configuration.  "" is a missing
\* field; viewport is the string cut at its "x"s.
PSchedule(cron, path, viewport, url) ==
    [cron |-> cron, dashboard_path |-> path, viewport |-> viewport, webhook_url |-> url]

\* The configurations followed: two schedules that start() accepts (the
\* second with a viewport written 800-480) and one it rejects; and schedules
\* that each fail one of start()'s checks.
PuppetConfigs ==
    {<<PSchedule("m1", "/lovelace/0", <<"800", "480">>, "hook"),
       PSchedule("m5", "/lovelace/1", <<"800-480">>, "hook"),
       PSchedule("m1", "/lovelace/2", <<"800", "480">>, "")>>,
     <<PSchedule("", "/lovelace/0", <<"800", "480">>, "hook"),
       PSchedule("m1", "", <<"800", "480">>, "hook"),
       PSchedule("m1", "/lovelace/0", <<>>, "hook"),
       PSchedule("bad", "/lovelace/0", <<"800", "480">>, "hook")>>}

\* start()'s checks of one schedule; a viewport of no parts is the missing one.
Accepted(schedule) ==
    /\ schedule.cron # ""
    /\ schedule.dashboard_path # ""
    /\ schedule.viewport # <<>>
    /\ schedule.webhook_url # ""
    /\ cronValidate(schedule.cron)

\* schedules.forEach(...) of start(): the jobs pushed, in order.
RECURSIVE Pushed(_, _)
Pushed(schedules, i) ==
    IF i > Len(schedules) THEN <<>>
    ELSE IF Accepted(schedules[i]) THEN <<schedules[i]>> \o Pushed(schedules, i + 1)
    ELSE Pushed(schedules, i + 1)

\* start() of the stand-alone scheduler, called once by main.js.
start(schedules) ==
    /\ pjobs = <<>>
    /\ pjobs' = Pushed(schedules, 1)
    /\ UNCHANGED <<store, nextId, jobs, runs, sbusy, reply, reloaded, shot, dvars, bvars, vvars, hvars, xvars>>

\* parseInt(n) is a number
IsNumber(part) == part \in {"800", "480", "800-480"}

\* parseViewport(viewportString) returns (it throws otherwise)
parseViewportOk(viewport) ==
    /\ Len(viewport) = 2
    /\ \A i \in 1..Len(viewport) : IsNumber(viewport[i])

\* Mutant of JobCatch: the catch logs and throws the error on.
JobCatchRethrows(run) ==
    [run EXCEPT !.pc = "done", !.logged = run.thrown, !.result = "rejected"]

\* executeScheduledJob's catch: console.error(..., err.message); nothing is rethrown.
JobCatch(run) == Completed([run EXCEPT !.logged = run.thrown])

\* executeScheduledJob(schedule) as the j-th job calls it, up to its first
\* await: the viewport is parsed and browser.navigatePage is entered, which
\* throws when the browser is busy.
executeScheduledJob(j) ==
    /\ HasFreeRun
    /\ LET run == StartedRun("puppet", pjobs[j], "navigate")
       IN IF ~parseViewportOk(pjobs[j].viewport)
          THEN /\ runs' = [runs EXCEPT ![FreeRun] = JobCatch(Thrown(run, "viewport"))]
               /\ UNCHANGED sbusy
          ELSE IF sbusy
          THEN /\ runs' = [runs EXCEPT ![FreeRun] = JobCatch(Thrown(run, "busy"))]
               /\ UNCHANGED sbusy
          ELSE /\ runs' = [runs EXCEPT ![FreeRun] = run]
               /\ sbusy' = TRUE
    /\ UNCHANGED <<store, nextId, jobs, pjobs, reply, reloaded, shot, dvars, bvars, vvars, hvars, xvars>>

\* navigatePage settles (its finally clears busy); resolved, screenshotPage is
\* entered in the same turn, finds the browser free and takes it.
navigatePageSettles(r, ok) ==
    /\ runs[r].kind = "puppet"
    /\ runs[r].pc = "navigate"
    /\ IF ~ok
       THEN /\ runs' = [runs EXCEPT ![r] = JobCatch(Thrown(runs[r], "navigate"))]
            /\ sbusy' = FALSE
       ELSE /\ runs' = [runs EXCEPT ![r].pc = "screenshot"]
            /\ sbusy' = TRUE
    /\ UNCHANGED <<store, nextId, jobs, pjobs, reply, reloaded, shot, dvars, bvars, vvars, hvars, xvars>>

\* screenshotPage settles (its finally clears busy); resolved, the upload starts.
screenshotPageSettles(r, ok) ==
    /\ runs[r].kind = "puppet"
    /\ runs[r].pc = "screenshot"
    /\ sbusy' = FALSE
    /\ runs' = [runs EXCEPT ![r] =
                  IF ok THEN [runs[r] EXCEPT !.pc = "upload"]
                  ELSE JobCatch(Thrown(runs[r], "screenshot"))]
    /\ UNCHANGED <<store, nextId, jobs, pjobs, reply, reloaded, shot, dvars, bvars, vvars, hvars, xvars>>

\* The stand-alone scheduler's fetch settles.  Its uploadToWebhook rethrows
\* what it catches, as "Failed to upload to webhook: ...".
fetchSettles(r, res) ==
    /\ runs[r].kind = "puppet"
    /\ runs[r].pc = "upload"
    /\ runs' = [runs EXCEPT ![r] =
                  IF res = "ok" THEN Completed(runs[r])
                  ELSE JobCatch(Thrown(runs[r], "upload"))]
    /\ UNCHANGED <<store, nextId, jobs, pjobs, sbusy, reply, reloaded, shot, dvars, bvars, vvars, hvars, xvars>>

FetchResults == {"ok", "http", "network"}

SchedulerInit ==
    /\ store = InitialSchedules
    /\ nextId = 3
    /\ jobs = [id \in ScheduleIds |-> NoJob]
    /\ pjobs = <<>>
    /\ runs = [r \in RunIds |-> NoRun]
    /\ sbusy = FALSE
    /\ reply = NoReply
    /\ reloaded = FALSE

\* The jobs of both schedulers at work on the schedules they were started with.
JobNext ==
    \/ \E schedules \in PuppetConfigs : start(schedules)
    \/ \E j \in 1..Len(pjobs) : executeScheduledJob(j)
    \/ \E r \in RunIds, ok \in BOOLEAN : navigatePageSettles(r, ok)
    \/ \E r \in RunIds, ok \in BOOLEAN : screenshotPageSettles(r, ok)
    \/ \E r \in RunIds, res \in FetchResults : fetchSettles(r, res)
    \/ loadAndSchedule
    \/ \E id \in ScheduleIds : runSchedule(id)
    \/ \E r \in RunIds, ok \in BOOLEAN, fsOk \in BOOLEAN : screenshotFnSettles(r, ok, fsOk)
    \/ \E r \in RunIds, res \in FetchResults : uploadToWebhookSettles(r, res)

\* The add-on's scheduler while stored schedules are updated over the API.
ReloadNext ==
    \/ \E id \in ScheduleIds, body \in ReloadUpdates : handleScheduleAPI("PUT", id, body, TRUE)
    \/ loadAndSchedule
    \/ \E id \in ScheduleIds : runSchedule(id)

\* The updates followed on the job registry: disabling and enabling.
RegistryUpdates == {Update(<<FALSE>>, <<>>, <<>>), Update(<<TRUE>>, <<>>, <<>>)}

\* The scheduler's reloads among creations, updates and deletions.
RegistryNext ==
    \/ \E body \in StoreBodies : handleSchedulesAPI(body, TRUE)
    \/ \E id \in ScheduleIds, body \in RegistryUpdates : handleScheduleAPI("PUT", id, body, TRUE)
    \/ \E id \in ScheduleIds : handleScheduleAPI("DELETE", id, BadJson, TRUE)
    \/ loadAndSchedule

\* The schedule API with bodies that do and do not carry an id.
IdNext ==
    \/ \E body \in StoreBodies \cup IdBodies : handleSchedulesAPI(body, TRUE)
    \/ \E id \in ScheduleIds, body \in StoreUpdates \cup IdUpdates :
          handleScheduleAPI("PUT", id, body, TRUE)
    \/ \E id \in ScheduleIds : handleScheduleAPI("DELETE", id, BadJson, TRUE)

\* The schedule API on the store.
StoreNext ==
    \/ \E body \in StoreBodies \cup {BadJson}, fsOk \in BOOLEAN : handleSchedulesAPI(body, fsOk)
    \/ \E method \in {"PUT", "DELETE", "PATCH"}, id \in 1..(MaxSchedules + 1),
          body \in StoreUpdates \cup {BadJson}, fsOk \in BOOLEAN :
            handleScheduleAPI(method, id, body, fsOk)

\* ------------------------------------------------------------------------
\* The screenshot pipeline's choice of BMP depth (Browser.screenshotPage in
\* its two versions, behind the request handler's parameter parsing)
\* ------------------------------------------------------------------------

\* Query parameters as parseInt reads them: <<>> is NaN (absent or not a number).
RawEinkValues == Opt({0, 1, 2, 4, 7, 16})
RawBitDepthValues == Opt({1, 2, 3, 4, 8})
RawFormatValues == {"", "png", "jpeg", "webp", "bmp", "gif"}

\* if (isNaN(einkColors) || einkColors < 2) einkColors = undefined
ParseEink(raw) == IF raw = <<>> THEN <<>> ELSE IF raw[1] < 2 THEN <<>> ELSE raw

\* if (isNaN(bitDepth) || ![1, 2, 4, 8].includes(bitDepth)) bitDepth = 2
ParseBitDepth(raw) ==
    IF raw = <<>> THEN 2 ELSE IF raw[1] \notin {1, 2, 4, 8} THEN 2 ELSE raw[1]

\* get("format") || "png", then "png" unless one of the four formats
ParseFormat(raw) == IF raw \in {"png", "jpeg", "webp", "bmp"} THEN raw ELSE "png"

\* const dithering = ditheringEnabled ? { enabled: true, ..., bitDepth, ... } : undefined
ParseDithering(enabled, rawBitDepth) ==
    IF enabled THEN <<[enabled |-> TRUE, bitDepth |-> ParseBitDepth(rawBitDepth)]>> ELSE <<>>

\* einkColorsToBpp(einkColors)
einkColorsToBpp(einkColors) ==
    IF einkColors = 2 THEN 1
    ELSE IF einkColors = 4 THEN 2
    ELSE IF einkColors = 16 THEN 4
    ELSE 8

\* convertToFormat(sharpInstance, format, options): the depth handed to
\* new BMPEncoder, <<>> when no encoder is built.  bitsPerPixel is <<>> when
\* options has none.
convertToFormat(format, bitsPerPixel) ==
    IF format = "bmp"
    THEN IF bitsPerPixel = <<>> THEN <<24>>
         ELSE IF bitsPerPixel[1] = 0 THEN <<24>> ELSE bitsPerPixel
    ELSE <<>>

\* screenshotPage of the add-on's Browser, from the screenshot taken on:
\* advanced dithering, else the legacy e-ink mode, else the plain conversion.
AddonEncoderDepth(format, einkColors, dithering) ==
    IF dithering # <<>>
    THEN convertToFormat(format, <<dithering[1].bitDepth>>)
    ELSE IF einkColors # <<>>
    THEN convertToFormat(format, <<einkColorsToBpp(einkColors[1])>>)
    ELSE convertToFormat(format, <<>>)

\* screenshotPage of the stand-alone Browser: the legacy e-ink branch builds
\* the encoder from the colour count, every other BMP gets 24.
PuppetEncoderDepth(format, einkColors, dithering) ==
    IF einkColors # <<>> /\ dithering = <<>>
    THEN IF format = "bmp"
         THEN IF einkColors[1] = 2 THEN <<1>>
              ELSE IF einkColors[1] = 4 THEN <<2>>
              ELSE IF einkColors[1] = 16 THEN <<4>>
              ELSE <<8>>
         ELSE <<>>
    ELSE IF format = "bmp" THEN <<24>> ELSE <<>>

NoShot ==
    [variant |-> "none", format |-> "", einkColors |-> <<>>, dithering |-> <<>>,
     bitsPerPixel |-> <<>>, result |-> "none"]

\* A request's parameters are parsed and screenshotPage is called with them;
\* new BMPEncoder throws for a depth that is not supported, and screenshotPage
\* rethrows.  The screenshot itself, the dithering and the encoding are taken
\* to succeed.
screenshotPage(variant, rawFormat, rawEink, ditheringEnabled, rawBitDepth) ==
    /\ LET format == ParseFormat(rawFormat)
           einkColors == ParseEink(rawEink)
           dithering == ParseDithering(ditheringEnabled, rawBitDepth)
           bitsPerPixel == IF variant = "addon"
                           THEN AddonEncoderDepth(format, einkColors, dithering)
                           ELSE PuppetEncoderDepth(format, einkColors, dithering)
       IN shot' = [variant |-> variant, format |-> format, einkColors |-> einkColors,
                   dithering |-> dithering, bitsPerPixel |-> bitsPerPixel,
                   result |-> IF bitsPerPixel = <<>> THEN "image"
                              ELSE IF bitsPerPixel[1] \in SUPPORTED_BITS_PER_PIXEL THEN "image"
                              ELSE "Unsupported bits per pixel"]
    /\ UNCHANGED <<store, nextId, jobs, pjobs, runs, sbusy, reply, reloaded,
                   dvars, bvars, vvars, hvars, xvars>>

ShotInit == shot = NoShot

ShotNext ==
    \E variant \in {"addon", "puppet"}, rawFormat \in RawFormatValues, rawEink \in RawEinkValues,
       ditheringEnabled \in BOOLEAN, rawBitDepth \in RawBitDepthValues :
        screenshotPage(variant, rawFormat, rawEink, ditheringEnabled, rawBitDepth)

\* ------------------------------------------------------------------------
\* The options record that screenshotPage hands to applyDithering
\* (parseDitheringParams / the add-on's parameter parsing, then
\* applyAdvancedDithering and the stand-alone screenshotPage)
\* ------------------------------------------------------------------------

\* get("dither_method"): "" when the parameter is absent or empty.
RawMethodValues == {"", "ordered", "atkinson"}

\* parseInt of black_level / white_level: <<>> is NaN.
RawLevelValues == Opt({0, 30, 70, 101})

\* a || b on numbers: 0 (and NaN) is falsy.
OrNumber(a, b) == IF a = 0 THEN b ELSE a

\* a || b on strings: "" (and null) is falsy.
OrString(a, b) == IF a = "" THEN b ELSE a

\* if (isNaN(level) || level < 0 || level > 100) level = default
ParseLevel(raw, default) ==
    IF raw = <<>> THEN default
    ELSE IF raw[1] < 0 \/ raw[1] > 100 THEN default
    ELSE raw[1]

\* parseDitheringParams(searchParams) for a query string that has "dithering".
parseDitheringParams(rawMethod, rawBitDepth, noGamma, rawBlack, rawWhite) ==
    [enabled |-> TRUE,
     method |-> OrString(rawMethod, "floyd-steinberg"),
     bitDepth |-> ParseBitDepth(rawBitDepth),
     gammaCorrection |-> ~noGamma,
     blackLevel |-> ParseLevel(rawBlack, 0),
     whiteLevel |-> ParseLevel(rawWhite, 100)]

\* The record built in applyAdvancedDithering (add-on) and in screenshotPage
\* (stand-alone, where the bit depth falls back to 4).
DitherCallOptions(variant, dithering) ==
    [method |-> OrString(dithering.method, "floyd-steinberg"),
     bitDepth |-> OrNumber(dithering.bitDepth, IF variant = "addon" THEN 2 ELSE 4),
     gammaCorrection |-> dithering.gammaCorrection # FALSE,
     blackLevel |-> OrNumber(dithering.blackLevel, 0),
     whiteLevel |-> OrNumber(dithering.whiteLevel, 100)]

NoEngine == [variant |-> "none"]

\* A request with "dithering" in its query string reaches applyDithering.
applyAdvancedDithering(variant, rawMethod, rawBitDepth, noGamma, rawBlack, rawWhite) ==
    /\ engine' = [variant |-> variant,
                  rawMethod |-> rawMethod,
                  rawBlack |-> rawBlack,
                  rawWhite |-> rawWhite,
                  options |-> DitherCallOptions(variant,
                                 parseDitheringParams(rawMethod, rawBitDepth, noGamma,
                                                      rawBlack, rawWhite))]
    /\ UNCHANGED <<dvars, bvars, vvars, hvars, svars, nvars, cvars, zvars, live, sent>>

OptionInit == engine = NoEngine

OptionNext ==
    \E variant \in {"addon", "puppet"}, rawMethod \in RawMethodValues,
       rawBitDepth \in Opt({1, 3, 8}), noGamma \in BOOLEAN,
       rawBlack \in RawLevelValues, rawWhite \in RawLevelValues :
        applyAdvancedDithering(variant, rawMethod, rawBitDepth, noGamma, rawBlack, rawWhite)


\* ------------------------------------------------------------------------
\* The list of warm-up timeouts (RequestHandler.scheduleNextRequest, and the
\* same statements at the end of the add-on's handleRequest)
\* ------------------------------------------------------------------------

\* parseInt(searchParams.get("next"), 10): <<>> is NaN.
RawNextValues == Opt({-5, 0, 2, 60})

\* Date.now() - start.getTime() and this.navigationTime, in milliseconds.
RequestTimes == {<<300, 100>>, <<900, 400>>}

\* next * 1000 - requestTime - this.navigationTime - 1000
nextWaitTime(next, requestTime, navigationTime) ==
    next * 1000 - requestTime - navigationTime - 1000

\* Mutant of Shifted: the list is never trimmed.
ShiftedNever(list) == [list |-> list, cleared |-> <<>>]

\* if (this.nextRequests.length > MAX_NEXT_REQUESTS)
\*     clearTimeout(this.nextRequests.shift());
Shifted(list) ==
    IF Len(list) > MAX_NEXT_REQUESTS
    THEN [list |-> Tail(list), cleared |-> <<Head(list)>>]
    ELSE [list |-> list, cleared |-> <<>>]

NoNextCall == [next |-> <<>>, wait |-> <<>>, added |-> <<>>, cleared |-> <<>>]

\* scheduleNextRequest(requestId, requestParams, searchParams, start)
scheduleNextRequest(rawNext, requestTime, navigationTime) ==
    /\ nextIssued < MaxNextCalls
    /\ IF rawNext = <<>>
       THEN /\ nextCall' = NoNextCall
            /\ UNCHANGED <<nextRequests, nextArmed, nextIssued>>
       ELSE IF rawNext[1] <= 0
       THEN /\ nextCall' = [NoNextCall EXCEPT !.next = rawNext]
            /\ UNCHANGED <<nextRequests, nextArmed, nextIssued>>
       ELSE LET wait == nextWaitTime(rawNext[1], requestTime, navigationTime)
                id == nextIssued + 1
                shifted == Shifted(Append(nextRequests, id))
            IN  IF wait < 0
                THEN /\ nextCall' = [NoNextCall EXCEPT !.next = rawNext, !.wait = <<wait>>]
                     /\ UNCHANGED <<nextRequests, nextArmed, nextIssued>>
                ELSE /\ nextIssued' = id
                     /\ nextRequests' = shifted.list
                     /\ nextArmed' = (nextArmed \cup {id}) \ {shifted.cleared[i] : i \in DOMAIN shifted.cleared}
                     /\ nextCall' = [next |-> rawNext, wait |-> <<wait>>, added |-> <<id>>,
                                     cleared |-> shifted.cleared]
    /\ UNCHANGED <<dvars, bvars, vvars, hvars, svars, engine, cvars, zvars, live, sent>>

\* The warm-up timeout that is due first fires: its callback runs
\* prepareNextRequest; its id stays in nextRequests.  (The order in which the
\* armed timeouts fire does not touch the list; the oldest is taken first.)
nextRequestTimeout ==
    /\ nextArmed # {}
    /\ nextArmed' = nextArmed \ {CHOOSE i \in nextArmed : \A j \in nextArmed : i <= j}
    /\ UNCHANGED <<nextRequests, nextIssued, nextCall>>
    /\ UNCHANGED <<dvars, bvars, vvars, hvars, svars, engine, cvars, zvars, live, sent>>

NextRequestsInit ==
    /\ nextRequests = <<>>
    /\ nextArmed = {}
    /\ nextIssued = 0
    /\ nextCall = NoNextCall

NextRequestsNext ==
    \/ \E rawNext \in RawNextValues, times \in RequestTimes :
          scheduleNextRequest(rawNext, times[1], times[2])
    \/ nextRequestTimeout


\* ------------------------------------------------------------------------
\* Browser.cleanup and Browser.getPage (the add-on's Browser), with the
\* request handler's idle check.  One invocation at a time is in the browser
\* section (RequestHandler.busy); _runBrowserCleanupCheck returns when the
\* flag is set, so cleanup starts only when the section is empty, and then
\* runs on across its awaits.
\* ------------------------------------------------------------------------

PagePaths == {"a", "b"}

CleanupSlots == 1..MaxCleanups

NoClosing == [pc |-> "idle", browser |-> 0, page |-> 0]

NoReq == [pc |-> "idle", path |-> "", browser |-> 0, page |-> 0, fullLoad |-> FALSE]

\* Mutant of cleanupReset: lastRequestedPath is left as it was.
cleanupResetKeepsPath == [brw EXCEPT !.browser = 0, !.page = 0]

\* cleanup(): this.page = undefined; this.browser = undefined;
\* this.lastRequestedPath = undefined; ...
cleanupReset == [browser |-> 0, page |-> 0, lastRequestedPath |-> ""]

\* _runBrowserCleanupCheck finds the handler idle for BROWSER_TIMEOUT and
\* calls cleanup(), which runs to its first await: the objects are captured,
\* the state is reset and page.close() is called.  cleanup returns at once
\* when there is neither browser nor page.  The invocation is recorded in the
\* first free slot.
cleanup(c) ==
    /\ req.pc = "idle"
    /\ closing[c].pc = "idle"
    /\ \A d \in CleanupSlots : d < c => closing[d].pc # "idle"
    /\ brw.browser # 0 \/ brw.page # 0
    /\ closing' = [closing EXCEPT ![c] = [pc |-> IF brw.page # 0 THEN "closingPage"
                                                 ELSE "closingBrowser",
                                          browser |-> brw.browser, page |-> brw.page]]
    /\ brw' = cleanupReset
    /\ UNCHANGED <<launched, closedPages, closedBrowsers, req, loadedPages>>
    /\ UNCHANGED <<dvars, bvars, vvars, hvars, svars, engine, nvars, zvars, live, sent>>

\* await page.close() settles (an error is logged): browser.close() is called
\* if a browser was captured.
pageCloseSettles(c, ok) ==
    /\ closing[c].pc = "closingPage"
    /\ closedPages' = IF ok THEN closedPages \cup {closing[c].page} ELSE closedPages
    /\ closing' = [closing EXCEPT ![c] = IF closing[c].browser # 0
                                         THEN [@ EXCEPT !.pc = "closingBrowser"]
                                         ELSE NoClosing]
    /\ UNCHANGED <<brw, launched, closedBrowsers, req, loadedPages>>
    /\ UNCHANGED <<dvars, bvars, vvars, hvars, svars, engine, nvars, zvars, live, sent>>

\* await browser.close() settles (an error is logged); a closed browser's
\* page is closed with it.
browserCloseSettles(c, ok) ==
    /\ closing[c].pc = "closingBrowser"
    /\ closedBrowsers' = IF ok THEN closedBrowsers \cup {closing[c].browser} ELSE closedBrowsers
    /\ closedPages' = IF ok THEN closedPages \cup {closing[c].browser} ELSE closedPages
    /\ closing' = [closing EXCEPT ![c] = NoClosing]
    /\ UNCHANGED <<brw, launched, req, loadedPages>>
    /\ UNCHANGED <<dvars, bvars, vvars, hvars, svars, engine, nvars, zvars, live, sent>>

\* getPage() up to its first await: the existing page, or puppeteer.launch.
getPage(r) ==
    IF brw.page # 0
    THEN [r EXCEPT !.pc = "gotPage", !.page = brw.page]
    ELSE [r EXCEPT !.pc = "launching"]

\* A request (or scheduled screenshot, or warm-up) takes the handler's flag
\* and calls navigatePage, which calls getPage.
navigatePage(path) ==
    /\ req.pc = "idle"
    /\ req' = getPage([NoReq EXCEPT !.path = path])
    /\ UNCHANGED <<brw, launched, closedPages, closedBrowsers, closing, loadedPages>>
    /\ UNCHANGED <<dvars, bvars, vvars, hvars, svars, engine, nvars, zvars, live, sent>>

\* await puppeteer.launch(...) settles: browser.newPage() is called.
launchSettles ==
    /\ req.pc = "launching"
    /\ launched < MaxLaunches
    /\ launched' = launched + 1
    /\ req' = [req EXCEPT !.pc = "newPage", !.browser = launched + 1]
    /\ UNCHANGED <<brw, closedPages, closedBrowsers, closing, loadedPages>>
    /\ UNCHANGED <<dvars, bvars, vvars, hvars, svars, engine, nvars, zvars, live, sent>>

\* await browser.newPage() settles: this.browser = browser; this.page = page;
\* return this.page.
newPageSettles ==
    /\ req.pc = "newPage"
    /\ brw' = [brw EXCEPT !.browser = req.browser, !.page = req.browser]
    /\ req' = [req EXCEPT !.pc = "gotPage", !.page = req.browser]
    /\ UNCHANGED <<launched, closedPages, closedBrowsers, closing, loadedPages>>
    /\ UNCHANGED <<dvars, bvars, vvars, hvars, svars, engine, nvars, zvars, live, sent>>

\* navigatePage after await this.getPage(): with lastRequestedPath undefined
\* the page is opened with page.goto (which may fail: CannotOpenPageError),
\* otherwise the dashboard already loaded is navigated in place or left where
\* it is; this.lastRequestedPath = pagePath.
navigateSettles(ok) ==
    /\ req.pc = "gotPage"
    /\ IF brw.lastRequestedPath = ""
       THEN IF ok
            THEN /\ loadedPages' = loadedPages \cup {req.page}
                 /\ brw' = [brw EXCEPT !.lastRequestedPath = req.path]
                 /\ req' = [req EXCEPT !.pc = "navigated", !.fullLoad = TRUE]
            ELSE /\ req' = NoReq
                 /\ UNCHANGED <<brw, loadedPages>>
       ELSE /\ brw' = [brw EXCEPT !.lastRequestedPath = req.path]
            /\ req' = [req EXCEPT !.pc = "navigated", !.fullLoad = FALSE]
            /\ UNCHANGED loadedPages
    /\ UNCHANGED <<launched, closedPages, closedBrowsers, closing>>
    /\ UNCHANGED <<dvars, bvars, vvars, hvars, svars, engine, nvars, zvars, live, sent>>

\* The handler goes on: a warm-up is finished, the others call
\* screenshotPage, which calls getPage again.
afterNavigatePage(warmup) ==
    /\ req.pc = "navigated"
    /\ req' = IF warmup THEN NoReq
              ELSE [getPage(req) EXCEPT !.pc = IF brw.page # 0 THEN "shooting" ELSE "launching"]
    /\ UNCHANGED <<brw, launched, closedPages, closedBrowsers, closing, loadedPages>>
    /\ UNCHANGED <<dvars, bvars, vvars, hvars, svars, engine, nvars, zvars, live, sent>>

\* screenshotPage ends; on an error this.lastRequestedPath = undefined.
screenshotSettles(ok) ==
    /\ req.pc = "shooting"
    /\ req' = NoReq
    /\ brw' = IF ok THEN brw ELSE [brw EXCEPT !.lastRequestedPath = ""]
    /\ UNCHANGED <<launched, closedPages, closedBrowsers, closing, loadedPages>>
    /\ UNCHANGED <<dvars, bvars, vvars, hvars, svars, engine, nvars, zvars, live, sent>>

BrowserInit ==
    /\ brw = [browser |-> 0, page |-> 0, lastRequestedPath |-> ""]
    /\ launched = 0
    /\ closedPages = {}
    /\ closedBrowsers = {}
    /\ closing = [c \in CleanupSlots |-> NoClosing]
    /\ req = NoReq
    /\ loadedPages = {}

BrowserNext ==
    \/ \E c \in CleanupSlots : cleanup(c)
    \/ \E c \in CleanupSlots, ok \in BOOLEAN : pageCloseSettles(c, ok)
    \/ \E c \in CleanupSlots, ok \in BOOLEAN : browserCloseSettles(c, ok)
    \/ \E path \in PagePaths : navigatePage(path)
    \/ launchSettles
    \/ newPageSettles
    \/ \E ok \in BOOLEAN : navigateSettles(ok)
    \/ \E warmup \in BOOLEAN : afterNavigatePage(warmup)
    \/ \E ok \in BOOLEAN : screenshotSettles(ok)


\* ------------------------------------------------------------------------
\* The viewport object on its way through navigatePage and screenshotPage
\* (a viewport is modelled by its height; the object that navigatePage is
\* given is the caller's, and viewport.height += headerHeight writes to it)
\* ------------------------------------------------------------------------

ViewportHeights == {480, 1024}

ZoomValues == {1, 2}

\* Math.round(HEADER_HEIGHT * zoom)
headerHeight(zoom) == HEADER_HEIGHT * zoom

\* navigatePage: viewport.height += headerHeight; the height the object has
\* afterwards (and page.setViewport is given).
Navigated(height, zoom) == height + headerHeight(zoom)

\* screenshotPage: clip.height = viewport.height - headerHeight.  asked is
\* what the caller configured, height what the object now holds.
ClipHeight(asked, height, zoom) == height - headerHeight(zoom)

NoClip == [kind |-> "none", asked |-> 0, height |-> 0]

\* loadAndSchedule registers a job whose callback keeps the schedule object
\* just parsed from the store; its viewport is an object or undefined.
scheduleJob(viewport) ==
    /\ jobViewport' = <<[asked |-> viewport, viewport |-> viewport]>>
    /\ UNCHANGED <<warmViewports, clip, shots>>
    /\ UNCHANGED <<dvars, bvars, vvars, hvars, svars, engine, nvars, cvars, live, sent>>

\* The cron job fires: runSchedule(schedule) passes
\* schedule.viewport || { width: 758, height: 1024 } to takeScreenshot, which
\* navigates and, if that succeeded, takes the screenshot.  The add-on's
\* schedules run at zoom schedule.zoom || 1, taken to be 1.
runScheduleShot(ok) ==
    /\ jobViewport # <<>>
    /\ shots < MaxShots
    /\ shots' = shots + 1
    /\ LET sched == jobViewport[1]
           asked == IF sched.asked = <<>> THEN 1024 ELSE sched.asked[1]
           before == IF sched.viewport = <<>> THEN 1024 ELSE sched.viewport[1]
           after == Navigated(before, 1)
       IN  /\ jobViewport' = IF sched.viewport = <<>> THEN jobViewport
                             ELSE <<[sched EXCEPT !.viewport = <<after>>]>>
           /\ clip' = IF ok THEN [kind |-> "schedule", asked |-> asked,
                                  height |-> ClipHeight(asked, after, 1)]
                      ELSE clip
    /\ UNCHANGED warmViewports
    /\ UNCHANGED <<dvars, bvars, vvars, hvars, svars, engine, nvars, cvars, live, sent>>

\* An HTTP request: the handler builds a viewport object from the query
\* string, navigates, takes the screenshot and, with next, keeps requestParams
\* (and so the viewport object) for the warm-up timeout.
requestShot(asked, zoom, ok, next) ==
    /\ shots < MaxShots
    /\ shots' = shots + 1
    /\ LET after == Navigated(asked, zoom)
       IN  /\ clip' = IF ok THEN [kind |-> "request", asked |-> asked,
                                  height |-> ClipHeight(asked, after, zoom)]
                      ELSE clip
           /\ warmViewports' = IF ok /\ next /\ Len(warmViewports) < MaxTimers
                               THEN Append(warmViewports, [height |-> after, zoom |-> zoom])
                               ELSE warmViewports
    /\ UNCHANGED jobViewport
    /\ UNCHANGED <<dvars, bvars, vvars, hvars, svars, engine, nvars, cvars, live, sent>>

\* The warm-up timeout fires: prepareNextRequest navigates with
\* { ...requestParams, extraWait: 0 }, whose viewport is the request's object;
\* no screenshot is taken and the object is dropped with the callback.
prepareNextShot ==
    /\ warmViewports # <<>>
    /\ shots < MaxShots
    /\ shots' = shots + 1
    /\ warmViewports' = Tail(warmViewports)
    /\ UNCHANGED <<jobViewport, clip>>
    /\ UNCHANGED <<dvars, bvars, vvars, hvars, svars, engine, nvars, cvars, live, sent>>

\* The stand-alone scheduler's job: parseViewport(schedule.viewport) makes a
\* new object at each run.
executeScheduledShot(asked, ok) ==
    /\ shots < MaxShots
    /\ shots' = shots + 1
    /\ clip' = IF ok THEN [kind |-> "job", asked |-> asked,
                           height |-> ClipHeight(asked, Navigated(asked, 1), 1)]
               ELSE clip
    /\ UNCHANGED <<jobViewport, warmViewports>>
    /\ UNCHANGED <<dvars, bvars, vvars, hvars, svars, engine, nvars, cvars, live, sent>>

ViewportInit ==
    /\ jobViewport = <<>>
    /\ warmViewports = <<>>
    /\ clip = NoClip
    /\ shots = 0

ViewportNext ==
    \/ \E viewport \in Opt(ViewportHeights) : scheduleJob(viewport)
    \/ \E ok \in BOOLEAN : runScheduleShot(ok)
    \/ \E asked \in ViewportHeights, zoom \in ZoomValues, ok \in BOOLEAN, next \in BOOLEAN :
          requestShot(asked, zoom, ok, next)
    \/ prepareNextShot
    \/ \E asked \in ViewportHeights, ok \in BOOLEAN : executeScheduledShot(asked, ok)

Init ==
    /\ DitherInit /\ BmpInit /\ ValidateInit /\ HandlerInit /\ SchedulerInit /\ ShotInit
    /\ OptionInit
    /\ NextRequestsInit
    /\ BrowserInit
    /\ ViewportInit
    /\ live = <<>>
    /\ sent = <<>>

DitherSpec == Init /\ [][DitherNext]_vars

BmpSpec == Init /\ [][BmpNext]_vars

ValidateSpec == Init /\ [][ValidateNext]_vars

HandlerSpec == Init /\ [][HandlerNext]_vars

HandlerLiveSpec == Init /\ [][LiveNext]_vars /\ HandlerFairness

CleanupSpec == Init /\ [][CleanupNext]_vars

JobSpec == Init /\ [][JobNext]_vars

ReloadSpec == Init /\ [][ReloadNext]_vars

StoreSpec == Init /\ [][StoreNext]_vars

RegistrySpec == Init /\ [][RegistryNext]_vars

IdSpec == Init /\ [][IdNext]_vars

ShotSpec == Init /\ [][ShotNext]_vars

OptionSpec == Init /\ [][OptionNext]_vars

NextRequestsSpec == Init /\ [][NextRequestsNext]_vars

BrowserSpec == Init /\ [][BrowserNext]_vars

ViewportSpec == Init /\ [][ViewportNext]_vars

\* ------------------------------------------------------------------------
\* Properties of the dithering engine (checked under DitherSpec)
\* ------------------------------------------------------------------------

\* A call of lib/dithering.js's applyDithering has been made.
LibCall == dcall.variant = "lib"

\* The options of the call with the documented defaults filled in.
Requested ==
    [method |-> Default(dcall.options.method, "floyd-steinberg"),
     gammaCorrection |-> Default(dcall.options.gammaCorrection, TRUE),
     blackLevel |-> Default(dcall.options.blackLevel, 0),
     whiteLevel |-> Default(dcall.options.whiteLevel, 100)]

\* The options record {method: 'none', bitDepth: 8, blackLevel: 0, whiteLevel: 100},
\* with gammaCorrection given or not.
IdentityRequest ==
    /\ dcall.options.method = <<"none">>
    /\ dcall.options.bitDepth = <<8>>
    /\ dcall.options.blackLevel = <<0>>
    /\ dcall.options.whiteLevel = <<100>>

\* C1: for every Buffer x and either value of gammaCorrection, the call
\* applyDithering(x, {method: 'none', bitDepth: 8, blackLevel: 0, whiteLevel: 100})
\* resolves at once with x itself (same object, same bytes), and issues no
\* backend operation and no log line.
C1_IdentityFastPath ==
    (LibCall /\ dcall.input.isBuffer /\ IdentityRequest) =>
        /\ dpc = "settled"
        /\ outcome.kind = "resolved"
        /\ outcome.val = dcall.input
        /\ ops = <<>>
        /\ logs = <<>>

\* Witness of C1: the fast path taken for a non-empty buffer with gamma removal on.
C1_Witness ==
    /\ LibCall /\ IdentityRequest
    /\ dcall.options.gammaCorrection = <<TRUE>>
    /\ Len(dcall.input.bytes) > 0
    /\ outcome.kind = "resolved"
    /\ outcome.val.ref = dcall.input.ref

\* The messages of the four option checks.
OptionMessages == {MsgMethod, MsgBitDepth, MsgRange, MsgOrder}

\* The call was rejected by an option check.
RejectedByOptions ==
    dpc = "settled" /\ outcome.kind = "rejected" /\ outcome.err.msg \in OptionMessages

\* The condition of the claim, on the options with defaults applied.
OptionsValid ==
    /\ Requested.method \in {"floyd-steinberg", "ordered", "none"}
    /\ Default(dcall.options.bitDepth, 4) \in {1, 2, 4, 8}
    /\ 0 <= Requested.blackLevel
    /\ Requested.blackLevel < Requested.whiteLevel
    /\ Requested.whiteLevel <= 100

\* C2: a call of applyDithering (lib/dithering.js) with a Buffer passes option
\* validation if and only if, with defaults applied, method is one of
\* floyd-steinberg, ordered, none, bitDepth is one of 1, 2, 4, 8 and
\* 0 <= blackLevel < whiteLevel <= 100; every other options record makes the
\* call reject with one of the option errors.
C2_OptionValidation ==
    (LibCall /\ dcall.input.isBuffer) => (OptionsValid <=> ~RejectedByOptions)

\* Witness of C2: equal levels (50, 50) are rejected by the ordering check.
C2_Witness ==
    /\ LibCall /\ dcall.input.isBuffer /\ Len(dcall.input.bytes) > 0
    /\ dcall.options.blackLevel = <<50>> /\ dcall.options.whiteLevel = <<50>>
    /\ dcall.options.method = <<"ordered">> /\ dcall.options.bitDepth = <<>>
    /\ RejectedByOptions /\ outcome.err.msg = MsgOrder

\* The call was rejected by the input check or by an option check.
RejectedByValidation ==
    dpc = "settled" /\ outcome.kind = "rejected"
    /\ outcome.err.msg \in OptionMessages \cup {MsgNotBuffer}

\* C3: a call of applyDithering that validation rejects has issued no backend
\* operation and written no log line; and whenever a call has returned on the
\* fast path or has issued a backend operation, its input is a Buffer and its
\* options are valid (validation precedes the fast path and the pipeline).
C3_FailFastValidation ==
    LibCall =>
        /\ RejectedByValidation => (ops = <<>> /\ logs = <<>>)
        /\ (ops # <<>> \/ outcome.kind = "resolved") =>
               (dcall.input.isBuffer /\ OptionsValid)

\* Witness of C3: a call with a valid method and an invalid bit depth, rejected.
C3_Witness ==
    /\ LibCall /\ dcall.input.isBuffer /\ Len(dcall.input.bytes) > 0
    /\ dcall.options.method = <<"floyd-steinberg">>
    /\ dcall.options.bitDepth = <<3>>
    /\ RejectedByValidation /\ outcome.err.msg = MsgBitDepth

\* C4 (as claimed): applyDithering rejects with the invalid-input error, before
\* any processing, every input that is not a Buffer and every Buffer of length
\* 0, whatever the options are.
C4_InputValidation ==
    (LibCall /\ (~dcall.input.isBuffer \/ Len(dcall.input.bytes) = 0)) =>
        /\ dpc = "settled"
        /\ outcome.kind = "rejected"
        /\ outcome.err.msg = MsgNotBuffer
        /\ ops = <<>>

\* The pipeline stage of a backend operation.
Stage(op) ==
    IF op.op = "noProfile" THEN 1
    ELSE IF op.op = "colorspace Gray" THEN 2
    ELSE IF op.op = "level" THEN 3
    ELSE IF op.op \in {"dither", "monochrome", "colors", "threshold"} THEN 4
    ELSE 5

StagesIssued == {Stage(ops[i]) : i \in 1..Len(ops)}
CountStage(k) == Cardinality({i \in 1..Len(ops) : Stage(ops[i]) = k})

\* The call goes through the pipeline: it passed validation and is not the
\* fast path.
PipelineCall ==
    /\ LibCall /\ dcall.input.isBuffer /\ OptionsValid
    /\ ~(Requested.method = "none" /\ dcall.options.bitDepth = <<8>>
         /\ Requested.blackLevel = 0 /\ Requested.whiteLevel = 100)

C6_FailureWrapped ==
    (dpc = "settled" /\ ops # <<>>) =>
        /\ outcome.kind = "rejected" =>
               (outcome.err.msg = "Dithering failed" /\ outcome.err.cause # "")
        /\ outcome.kind = "resolved" => Len(outcome.val.bytes) > 0

\* C16: in every outcome of applyDithering (fast path, success, validation
\* error, processing failure), and at every point of the call before it, the
\* caller's input buffer and options object hold what they held when the call
\* was made.
C16_InputUnchanged ==
    LibCall => (heap.input = dcall.input /\ heap.options = dcall.options)

\* Witness of C16: a call given a non-empty buffer and an options object with
\* only bitDepth set went through the backend and resolved.
C16_Witness ==
    /\ LibCall /\ dpc = "settled" /\ outcome.kind = "resolved"
    /\ ops # <<>>
    /\ Len(dcall.input.bytes) > 0
    /\ dcall.options = [NoOptions EXCEPT !.bitDepth = <<2>>]
    /\ heap.options = dcall.options

\* ------------------------------------------------------------------------
\* Properties of the BMP encoder (checked under BmpSpec)
\* ------------------------------------------------------------------------

\* The little-endian 32- and 16-bit fields at 0-based offset off of bytes.
ReadU32LE(bytes, off) ==
    bytes[off + 1] + 256 * bytes[off + 2] + 65536 * bytes[off + 3]
    + 16777216 * bytes[off + 4]
ReadU16LE(bytes, off) == bytes[off + 1] + 256 * bytes[off + 2]

\* C7: constructing BMPEncoder(width, height, bitsPerPixel) throws for every
\* bitsPerPixel other than 1 and 24, at construction: no field of the object
\* has been set and nothing has been encoded; depths 1 and 24 construct.
C7_UnsupportedDepth ==
    bpc # "none" =>
        IF ctorArgs.bitsPerPixel \in {1, 24}
        THEN bpc # "threw" /\ enc.bitsPerPixel = ctorArgs.bitsPerPixel
        ELSE bpc = "threw" /\ enc = NoEncoder /\ encResult = NoResult /\ encData = <<>>

\* Witness of C7: the constructor has thrown for 8 bits per pixel.
C7_Witness == bpc = "threw" /\ ctorArgs.bitsPerPixel = 8 /\ ctorArgs.width = 8

\* C8 (as claimed): for every width >= 1 and both supported depths, the padded
\* row size is a whole number, a multiple of 4, and at least
\* ceil(width * bitsPerPixel / 8).
C8_RowPadding ==
    bpc \in {"constructed", "encoded"} =>
        /\ enc.paddedWidthBytes8 % 8 = 0
        /\ enc.paddedWidthBytes8 % 32 = 0
        /\ enc.paddedWidthBytes8 >= 8 * CeilDiv(ctorArgs.width * ctorArgs.bitsPerPixel, 8)

\* The smallest multiple of 4 that holds a 24-bit row of w pixels.
PaddedRowBytes24(w) == 4 * CeilDiv(3 * w, 4)

\* C9: every encode on a 24-bit encoder built for w, h >= 1 returns a buffer
\* whose header width and height fields are w and h, whose file-size field is
\* the buffer's actual length, and whose length is 54 + h * paddedRowBytes,
\* paddedRowBytes being the multiple of 4 that pads a row of 3 * w bytes.
C9_Container24 ==
    (bpc = "encoded" /\ ctorArgs.bitsPerPixel = 24) =>
        /\ encResult.kind = "returned"
        /\ ReadU32LE(encResult.bytes, 18) = ctorArgs.width
        /\ ReadU32LE(encResult.bytes, 22) = ctorArgs.height
        /\ ReadU32LE(encResult.bytes, 2) = Len(encResult.bytes)
        /\ Len(encResult.bytes) = 54 + ctorArgs.height * PaddedRowBytes24(ctorArgs.width)
        /\ enc.paddedWidthBytes8 = 8 * PaddedRowBytes24(ctorArgs.width)

\* Witness of C9: a 3 x 2 image, whose 9-byte rows are padded to 12 bytes.
C9_Witness ==
    /\ bpc = "encoded" /\ ctorArgs = [width |-> 3, height |-> 2, bitsPerPixel |-> 24]
    /\ Len(encData) = 18
    /\ Len(encResult.bytes) = 78

\* C10: every 1-bit encode makes a 62-byte header with pixel-data offset 62,
\* palette-entry and important-colour counts 2, palette entry 0 = (0,0,0,0)
\* and entry 1 = (255,255,255,0); every 24-bit encode makes a 54-byte header
\* with offset 54 and both counts 0; a returned buffer starts with that header
\* and the pixel data follows it.
C10_HeaderPalette ==
    bpc = "encoded" =>
        /\ ctorArgs.bitsPerPixel = 1 =>
               /\ Len(encResult.header) = 62
               /\ ReadU32LE(encResult.header, 10) = 62
               /\ ReadU32LE(encResult.header, 46) = 2
               /\ ReadU32LE(encResult.header, 50) = 2
               /\ SubSeq(encResult.header, 55, 58) = <<0, 0, 0, 0>>
               /\ SubSeq(encResult.header, 59, 62) = <<255, 255, 255, 0>>
        /\ ctorArgs.bitsPerPixel = 24 =>
               /\ Len(encResult.header) = 54
               /\ ReadU32LE(encResult.header, 10) = 54
               /\ ReadU32LE(encResult.header, 46) = 0
               /\ ReadU32LE(encResult.header, 50) = 0
        /\ encResult.kind = "returned" =>
               /\ SubSeq(encResult.bytes, 1, Len(encResult.header)) = encResult.header
               /\ Len(encResult.bytes) = ReadU32LE(encResult.header, 10) + Len(encResult.pixelData)

\* Witness of C10: a 1-bit encode of an 8 x 2 image has returned.
C10_Witness ==
    /\ bpc = "encoded" /\ ctorArgs = [width |-> 8, height |-> 2, bitsPerPixel |-> 1]
    /\ encResult.kind = "returned"
    /\ Len(encResult.bytes) = 70

\* An encode has returned a container.
Returned == bpc = "encoded" /\ encResult.kind = "returned"

\* The number of bytes of one row of the returned pixel data, and its row r
\* (row 0 is the first in the file).
Stride == Len(encResult.pixelData) \div ctorArgs.height
OutRow(r) == SubSeq(encResult.pixelData, r * Stride + 1, (r + 1) * Stride)

\* Sample i (from 0) of the buffer given to encode; -1 when it is missing.
In(i) == Sample(encData, i)

\* C11: whenever a 1-bit encode returns, for every pixel (x, y) bit
\* 7 - (x mod 8) of byte floor(x / 8) of its output row is 1 exactly when the
\* input sample equals 255 (no thresholding), and every bit of the row past
\* the last pixel, padding bytes included, is 0.
C11_MonoPacking ==
    (Returned /\ ctorArgs.bitsPerPixel = 1) =>
        \A y \in 0..(ctorArgs.height - 1) :
            LET row == OutRow(ctorArgs.height - 1 - y)
            IN  /\ \A x \in 0..(ctorArgs.width - 1) :
                       BitIsSet(row[(x \div 8) + 1], 7 - (x % 8))
                           <=> (In(y * ctorArgs.width + x) = 255)
                /\ \A k \in ctorArgs.width..(8 * Stride - 1) :
                       ~BitIsSet(row[(k \div 8) + 1], 7 - (k % 8))

\* Witness of C11: a 16 x 2 image with white, near-white (254) and mid-gray
\* samples has been packed, and the second byte of a row holds a white pixel.
C11_Witness ==
    /\ Returned
    /\ ctorArgs = [width |-> 16, height |-> 2, bitsPerPixel |-> 1]
    /\ Len(encData) = 32
    /\ \E i, j, k \in 1..32 : encData[i] = 255 /\ encData[j] = 254 /\ encData[k] = 128
    /\ encResult.pixelData[2] # 0

\* The bytes a row of input must become: 8 pixels per byte, most significant
\* bit first, white = 1 (1-bit); b, g, r per pixel, then zeros (24-bit).
WhiteBit(y, k) ==
    IF k < ctorArgs.width /\ In(y * ctorArgs.width + k) = 255 THEN 1 ELSE 0
PackByte(y, j) ==
    128 * WhiteBit(y, 8 * j) + 64 * WhiteBit(y, 8 * j + 1) + 32 * WhiteBit(y, 8 * j + 2)
    + 16 * WhiteBit(y, 8 * j + 3) + 8 * WhiteBit(y, 8 * j + 4) + 4 * WhiteBit(y, 8 * j + 5)
    + 2 * WhiteBit(y, 8 * j + 6) + WhiteBit(y, 8 * j + 7)
BgrByte(y, j) == In(3 * (y * ctorArgs.width + (j \div 3)) + 2 - (j % 3))
ExpectedRow(y) ==
    [j \in 1..Stride |->
        IF ctorArgs.bitsPerPixel = 1 THEN PackByte(y, j - 1)
        ELSE IF j <= 3 * ctorArgs.width THEN BgrByte(y, j - 1) ELSE 0]

\* Every sample of input row y was handed over.
RowPresent(y) ==
    Len(encData) >= (y + 1) * ctorArgs.width * (IF ctorArgs.bitsPerPixel = 1 THEN 1 ELSE 3)

\* C12: whenever encode returns, in 1-bit and in 24-bit mode, input row y is
\* stored as output row height - 1 - y, so the last input row is the first
\* row of the pixel data, for every height >= 1.
C12_BottomUpRows ==
    Returned =>
        \A y \in 0..(ctorArgs.height - 1) :
            RowPresent(y) => OutRow(ctorArgs.height - 1 - y) = ExpectedRow(y)

\* Witness of C12: a 24-bit image of three rows, the first and the last of
\* which differ, has been encoded; the file's first row is the last input row.
C12_Witness ==
    /\ Returned
    /\ ctorArgs.bitsPerPixel = 24 /\ ctorArgs.height = 3
    /\ RowPresent(2)
    /\ ExpectedRow(0) # ExpectedRow(2)
    /\ OutRow(0) = ExpectedRow(2)

\* C13: for every pixel of a 24-bit encode the three output bytes are the
\* input's (R, G, B) written as (B, G, R), pixels follow one another with no
\* byte between them, and a row ends with zero padding bytes only.
C13_ChannelOrder ==
    (Returned /\ ctorArgs.bitsPerPixel = 24) =>
        /\ Stride = PaddedRowBytes24(ctorArgs.width)
        /\ \A y \in 0..(ctorArgs.height - 1) :
               LET row == OutRow(ctorArgs.height - 1 - y)
               IN  /\ \A x \in 0..(ctorArgs.width - 1) :
                          LET i == 3 * (y * ctorArgs.width + x)
                          IN  Len(encData) >= i + 3 =>
                                  SubSeq(row, 3 * x + 1, 3 * x + 3)
                                      = <<In(i + 2), In(i + 1), In(i)>>
                   /\ \A j \in (3 * ctorArgs.width + 1)..Stride : row[j] = 0

\* Witness of C13: a 2 x 1 image whose first pixel has red # blue has been
\* encoded into a row of 6 sample bytes and 2 padding bytes.
C13_Witness ==
    /\ Returned
    /\ ctorArgs = [width |-> 2, height |-> 1, bitsPerPixel |-> 24]
    /\ Len(encData) = 6
    /\ encData[1] # encData[3]
    /\ Len(encResult.pixelData) = 8

\* C14 (as claimed): encode with a sample buffer shorter than
\* width * height * channels fails with an error, in 1-bit and in 24-bit mode;
\* it never returns a container.
C14_BufferTooSmall ==
    (bpc = "encoded"
     /\ Len(encData) < ctorArgs.width * ctorArgs.height
                       * (IF ctorArgs.bitsPerPixel = 1 THEN 1 ELSE 3))
        => encResult.kind = "threw"

\* ------------------------------------------------------------------------
\* Properties of validateOptions (checked under ValidateSpec)
\* ------------------------------------------------------------------------

\* The options objects the claim calls valid: a given method is one of the
\* three, a given bitDepth is 1, 2, 4 or 8, and the levels (defaults 0 and
\* 100) satisfy 0 <= blackLevel < whiteLevel <= 100.
ValidOptions(options) ==
    /\ Given(options.method) => options.method[1] \in {"floyd-steinberg", "ordered", "none"}
    /\ Given(options.bitDepth) => options.bitDepth[1] \in {1, 2, 4, 8}
    /\ 0 <= Default(options.blackLevel, 0)
    /\ Default(options.blackLevel, 0) < Default(options.whiteLevel, 100)
    /\ Default(options.whiteLevel, 100) <= 100

\* C19 (as claimed): validateOptions returns true exactly for the valid
\* options objects; for every other one, a given bitDepth of 0, 3 or 5 or an
\* empty-string method included, it throws; it never returns false.
C19_ValidateOptions ==
    vpc = "done" =>
        /\ ValidOptions(vcall) => (vresult.kind = "returned" /\ vresult.val = TRUE)
        /\ ~ValidOptions(vcall) => vresult.kind = "threw"
        /\ ~(vresult.kind = "returned" /\ vresult.val = FALSE)

\* ------------------------------------------------------------------------
\* Properties of the request queue (checked under HandlerSpec)
\* ------------------------------------------------------------------------

\* The invocation is between setting RequestHandler.busy and releasing it.
Holding(t) ==
    tasks[t].pc \in {"navigating", "navigated", "navFailed", "shooting", "shot", "shotFailed"}

\* C20: under every interleaving of request arrivals, warm-up timer firings,
\* scheduler calls and completions, at most one handler invocation is between
\* setting RequestHandler.busy and releasing it, and the flag is set exactly
\* then; "Browser is busy" is never thrown and Browser.busy is set only for
\* the holder's own browser call; a screenshot is taken of the page that the
\* same invocation navigated.
C20_MutualExclusion ==
    /\ Cardinality({t \in Tasks : Holding(t)}) <= 1
    /\ hbusy <=> (\E t \in Tasks : Holding(t))
    /\ ~busyErrors
    /\ bbusy <=> (\E t \in Tasks : tasks[t].pc \in {"navigating", "shooting"})
    /\ \A t \in Tasks : tasks[t].pc \in {"shooting", "shot"} => tasks[t].shotPage = t

\* Witness of C20: a handler has just released the flag and woken a waiter
\* that has not run yet, while another waiter is queued and a warm-up timer
\* is armed.
C20_Witness ==
    /\ ~hbusy
    /\ timers > 0
    /\ \E t, u \in Tasks : tasks[t].pc = "woken" /\ tasks[u].pc = "waiting"

\* ------------------------------------------------------------------------
\* Properties of the browser clean-up timer (checked under CleanupSpec)
\* ------------------------------------------------------------------------

\* C21: Browser.cleanup is started only when no invocation holds the
\* handler's busy flag and at least BROWSER_TIMEOUT has passed since the most
\* recent invocation finished; at most one clean-up timeout is armed at any
\* time, and with keepBrowserOpen set none is ever armed.
C21_IdleCleanup ==
    /\ [](Len(armedTimers) <= 1)
    /\ [](keepOpen => armedTimers = <<>>)
    /\ [][cleanups' # cleanups =>
              /\ ~hbusy
              /\ \A t \in Tasks : ~Holding(t)
              /\ now - lastFinish >= BROWSER_TIMEOUT]_vars

\* Witness of C21: two invocations have finished at different times, a
\* clean-up has been started after the second, and no timeout is left armed.
C21_Witness ==
    /\ cleanups = 1
    /\ tasks[1].pc = "done" /\ tasks[2].pc = "done"
    /\ lastFinish > 0
    /\ armedTimers = <<>>

\* ------------------------------------------------------------------------
\* Properties of the schedulers and the schedule store
\* ------------------------------------------------------------------------

\* The job that called run r is still registered.
Registered(r) ==
    IF runs[r].kind = "puppet"
    THEN \E j \in 1..Len(pjobs) : pjobs[j] = runs[r].schedule
    ELSE jobs[runs[r].schedule.id] # NoJob /\ jobs[runs[r].schedule.id].schedule = runs[r].schedule

\* C22: scheduled jobs do not propagate errors.  No invocation of
\* executeScheduledJob or runSchedule ever rejects; whatever was thrown inside
\* it (by the viewport parser, by navigation, "Browser is busy" included, by
\* the screenshot, the file write or the upload) was logged and the invocation
\* ended fulfilled; no step of an invocation changes the registered jobs, and
\* the job of a failed invocation is still registered, so that its next
\* trigger runs it again.
C22_JobsNeverReject ==
    /\ [](\A r \in RunIds :
            /\ runs[r].result # "rejected"
            /\ (runs[r].pc = "done" => runs[r].result = "fulfilled")
            /\ (runs[r].thrown # "" =>
                  /\ runs[r].logged = runs[r].thrown
                  /\ runs[r].pc = "done"
                  /\ runs[r].result = "fulfilled"
                  /\ Registered(r)))
    /\ [][runs' # runs => (jobs' = jobs /\ pjobs' = pjobs)]_vars

\* Two jobs of the stand-alone scheduler overlapped: the first failed in its
\* upload, the second found the browser busy, and the second's schedule was
\* then triggered again and got as far as its upload.
C22_Witness ==
    /\ runs[1].kind = "puppet" /\ runs[1].thrown = "upload"
    /\ runs[2].kind = "puppet" /\ runs[2].thrown = "busy" /\ runs[2].result = "fulfilled"
    /\ runs[3].kind = "puppet" /\ runs[3].schedule = runs[2].schedule /\ runs[3].pc = "upload"

\* C23: reload picks up changes.  Once loadAndSchedule has run after the last
\* write of the store, every run a job starts is given the schedule as it is
\* stored now, with all its fields, whether or not the update changed the cron
\* expression.
C23_ReloadPicksUpChanges ==
    [][\A r \in RunIds :
         (runs[r].kind = "none" /\ runs'[r].kind = "addon" /\ reloaded)
            => \E i \in 1..Len(store) : store[i] = runs'[r].schedule]_vars

\* The request just served named an id that was not in the store.
UnknownIdServed ==
    /\ reply'.seq # reply.seq
    /\ reply'.method \in {"PUT", "DELETE"}
    /\ findIndex(store, reply'.id) = 0

\* The store functions called with an id that is not in the store.
UnknownIdCalls ==
    \A id \in 1..(MaxSchedules + 1) :
        findIndex(store, id) = 0 =>
            /\ \A updates \in Updates : updateSchedule(id, updates) = StoreResult(<<>>, <<>>)
            /\ deleteSchedule(id) = StoreResult(FALSE, <<>>)

\* C24 as stated: with an id that is not in the store updateSchedule returns
\* null and deleteSchedule false, neither calls saveSchedules, the stored list
\* stays as it is, and every PUT and DELETE on such an id is answered 404.
C24_UnknownIdAlways404 ==
    /\ []UnknownIdCalls
    /\ [][UnknownIdServed =>
            (reply'.status = 404 /\ ~reply'.saved /\ store' = store)]_vars

\* C24, amended: as above, except that a PUT whose body does not parse as JSON
\* is answered 400 (the body is parsed before the id is looked up); DELETE,
\* and PUT with a body that parses, are answered 404.
C24_UnknownId ==
    /\ []UnknownIdCalls
    /\ [][UnknownIdServed =>
            /\ reply'.status = (IF reply'.method = "PUT" /\ ~reply'.json THEN 400 ELSE 404)
            /\ ~reply'.saved
            /\ store' = store]_vars

\* Schedule 1 was deleted, and a PUT on its id with a body that parses was
\* answered 404, the two other schedules still stored.
C24_Witness ==
    /\ reply.method = "PUT" /\ reply.id = 1 /\ reply.json /\ reply.status = 404
    /\ Len(store) = 2
    /\ findIndex(store, 1) = 0

\* ------------------------------------------------------------------------
\* Further properties of the dithering engine (checked under DitherSpec)
\* ------------------------------------------------------------------------

\* The level operations among the operations issued.
LevelIssued == {i \in 1..Len(ops) : ops[i].op = "level"}

\* C25: in every call of applyDithering (lib/dithering.js) that goes through
\* the pipeline a level operation is issued if and only if blackLevel > 0 or
\* whiteLevel < 100; when issued there is one, with the call's blackLevel and
\* whiteLevel as black and white points and mid-tone gamma 1.0; with the
\* levels 0 and 100 there is none.
C25_LevelAdjustment ==
    PipelineCall =>
        IF Requested.blackLevel > 0 \/ Requested.whiteLevel < 100
        THEN /\ Cardinality(LevelIssued) = 1
             /\ \A i \in LevelIssued :
                    /\ ops[i].x = Requested.blackLevel
                    /\ ops[i].y = Requested.whiteLevel
                    /\ ops[i].gamma = 10
        ELSE LevelIssued = {}

\* Witness of C25: only the white level is off its default (0, 50), and the
\* level operation has been issued.
C25_Witness ==
    /\ PipelineCall /\ Len(dcall.input.bytes) > 0
    /\ dcall.options.blackLevel = <<0>> /\ dcall.options.whiteLevel = <<50>>
    /\ LevelIssued # {}

\* The quantization operations issued, in order.
QuantizeIssued == SelectSeq(ops, LAMBDA op : Stage(op) = 4)

\* A call of either variant that hands the image to the backend with one of
\* the three methods: the validating variant's pipeline calls, and every call
\* of the streaming variant, which validates nothing.
QuantizingCall ==
    /\ Requested.method \in {"floyd-steinberg", "ordered", "none"}
    /\ \/ PipelineCall
       \/ dcall.variant = "stream" /\ ops # <<>>

\* C26: with bitDepth 1, method floyd-steinberg issues diffusion on followed
\* by monochrome reduction, ordered issues diffusion off followed by
\* monochrome reduction, and none issues the threshold at 50% and no dither
\* operation; nothing else is issued for the quantization.
C26_OneBitSelection ==
    (QuantizingCall /\ dcall.options.bitDepth = <<1>>) =>
        QuantizeIssued =
            (IF Requested.method = "floyd-steinberg"
             THEN <<Op("dither", 1, 0), Op("monochrome", 0, 0)>>
             ELSE IF Requested.method = "ordered"
             THEN <<Op("dither", 0, 0), Op("monochrome", 0, 0)>>
             ELSE <<Op("threshold", 50, 1)>>)

\* Witness of C26: a one-bit call of the validating variant with method none
\* has issued the threshold.
C26_Witness ==
    /\ PipelineCall /\ Len(dcall.input.bytes) > 0
    /\ dcall.options.bitDepth = <<1>> /\ dcall.options.method = <<"none">>
    /\ QuantizeIssued = <<Op("threshold", 50, 1)>>

\* The bit depth of the call with the variant's default filled in.
RequestedBitDepth ==
    Default(dcall.options.bitDepth, IF dcall.variant = "stream" THEN 2 ELSE 4)

\* C27 (as claimed): with bitDepth 2, 4 or 8 and any method, the quantization
\* reduces to 2^bitDepth levels: diffusion on then the reduction for
\* floyd-steinberg, diffusion off then the reduction for ordered, the
\* reduction alone for none; a bitDepth 8 call that is not the fast path
\* issues the reduction to 256 levels.
C27_MultiLevel ==
    (QuantizingCall /\ RequestedBitDepth \in {2, 4, 8}) =>
        QuantizeIssued =
            (IF Requested.method = "floyd-steinberg"
             THEN <<Op("dither", 1, 0), Op("colors", Exp2(RequestedBitDepth), 0)>>
             ELSE IF Requested.method = "ordered"
             THEN <<Op("dither", 0, 0), Op("colors", Exp2(RequestedBitDepth), 0)>>
             ELSE <<Op("colors", Exp2(RequestedBitDepth), 0)>>)

\* The first rule, in the order input type, method, bitDepth, level range,
\* level ordering, that the call violates; "" when it violates none.
FirstViolated ==
    IF ~dcall.input.isBuffer THEN MsgNotBuffer
    ELSE IF Requested.method \notin {"floyd-steinberg", "ordered", "none"} THEN MsgMethod
    ELSE IF RequestedBitDepth \notin {1, 2, 4, 8} THEN MsgBitDepth
    ELSE IF \E l \in {Requested.blackLevel, Requested.whiteLevel} : l < 0 \/ l > 100
    THEN MsgRange
    ELSE IF Requested.blackLevel >= Requested.whiteLevel THEN MsgOrder
    ELSE ""

\* C28: a call of applyDithering (lib/dithering.js) that violates one or
\* several validation rules is rejected with the error of the first rule it
\* violates, in the order input type, method, bitDepth, level range, level
\* ordering.
C28_ValidationPrecedence ==
    (LibCall /\ FirstViolated # "") =>
        /\ dpc = "settled"
        /\ outcome.kind = "rejected"
        /\ outcome.err.msg = FirstViolated

\* Witness of C28: blackLevel 101 with whiteLevel 50 breaks the range rule and
\* the ordering rule, and the range error is reported.
C28_Witness ==
    /\ LibCall /\ dcall.input.isBuffer /\ Len(dcall.input.bytes) > 0
    /\ dcall.options.method = <<"ordered">> /\ dcall.options.bitDepth = <<2>>
    /\ dcall.options.blackLevel = <<101>> /\ dcall.options.whiteLevel = <<50>>
    /\ outcome.kind = "rejected" /\ outcome.err.msg = MsgRange

\* ------------------------------------------------------------------------
\* Further properties of the BMP encoder (checked under BmpSpec)
\* ------------------------------------------------------------------------

\* C29 (as claimed): in every buffer encode returns, the image-data-size field
\* (bytes 34-37) was computed as a whole number and equals the number of
\* pixel-data bytes after the header, which is the file-size field minus the
\* pixel-data offset, and height times the padded row size.
C29_HeaderImageSize ==
    Returned =>
        /\ ImageSize8(enc) % 8 = 0
        /\ ReadU32LE(encResult.bytes, 34) = Len(encResult.pixelData)
        /\ ReadU32LE(encResult.bytes, 34)
               = ReadU32LE(encResult.bytes, 2) - ReadU32LE(encResult.bytes, 10)
        /\ 8 * ReadU32LE(encResult.bytes, 34) = ctorArgs.height * enc.paddedWidthBytes8

\* ------------------------------------------------------------------------
\* Properties of the screenshot pipeline (checked under ShotSpec)
\* ------------------------------------------------------------------------

\* C30 (as claimed): every screenshotPage call for format bmp, with advanced
\* dithering at any bit depth or with any legacy e-ink colour count or with
\* neither, constructs its BMPEncoder with 1 or 24 bits per pixel and returns
\* an image; it never throws 'Unsupported bits per pixel'.
C30_SupportedDepth ==
    (shot.variant # "none" /\ shot.format = "bmp") =>
        /\ shot.bitsPerPixel \in {<<1>>, <<24>>}
        /\ shot.result = "image"

\* ------------------------------------------------------------------------
\* Properties of the options handed to the engine (checked under OptionSpec)
\* ------------------------------------------------------------------------

\* The level parseInt read lies in 0..100.
InRange(raw) == raw # <<>> /\ raw[1] >= 0 /\ raw[1] <= 100

\* C31 (as claimed): for every query string, the record handed to
\* applyDithering has a method among floyd-steinberg, ordered and none, a bit
\* depth among 1, 2, 4 and 8, and 0 <= blackLevel < whiteLevel <= 100; and a
\* level the caller gave within 0..100 reaches the engine unchanged.
C31_OptionsInvariant ==
    engine # NoEngine =>
        /\ engine.options.method \in {"floyd-steinberg", "ordered", "none"}
        /\ engine.options.bitDepth \in {1, 2, 4, 8}
        /\ 0 <= engine.options.blackLevel
        /\ engine.options.blackLevel < engine.options.whiteLevel
        /\ engine.options.whiteLevel <= 100
        /\ InRange(engine.rawBlack) => engine.options.blackLevel = engine.rawBlack[1]
        /\ InRange(engine.rawWhite) => engine.options.whiteLevel = engine.rawWhite[1]

\* ------------------------------------------------------------------------
\* Wake-ups of the request queue (checked under HandlerLiveSpec)
\* ------------------------------------------------------------------------

\* Invocation t leaves its handler in this step, other than by the warm-up's
\* "Busy, skipping" return, which never took the flag.
Exits(t) ==
    /\ tasks[t].pc # "done"
    /\ tasks'[t].pc = "done"
    /\ ~(tasks[t].pc = "none" /\ tasks'[t].kind = "next")

Parked == {t \in Tasks : tasks[t].pc = "waiting"}

\* The step clears the flag and wakes the oldest parked request, and only it.
ClearsAndWakesOne ==
    /\ hbusy' = FALSE
    /\ IF pending = <<>>
       THEN pending' = <<>> /\ Len(micro') <= Len(micro) /\ Parked' = Parked
       ELSE /\ pending' = Tail(pending)
            /\ tasks'[Head(pending)].pc = "woken"
            /\ Parked' = Parked \ {Head(pending)}
            /\ micro'[Len(micro')] = Head(pending)

\* C32: every exit of the three handlers (success, 400, 404, any other error)
\* clears busy and wakes exactly one parked request if there is one; while a
\* request is parked there is a holder, or a woken request about to become
\* one; and, the browser's operations all ending, every parked request
\* eventually proceeds.
C32_NoLostWakeup ==
    /\ [][\A t \in Tasks : Exits(t) => ClearsAndWakesOne]_vars
    /\ [](pending # <<>> => (hbusy \/ \E t \in Tasks : tasks[t].pc = "woken"))
    /\ [](\A t \in Tasks : t \in Parked <=> \E i \in 1..Len(pending) : pending[i] = t)
    /\ \A t \in Tasks : (tasks[t].pc = "waiting") ~> (tasks[t].pc \notin {"waiting", "woken"})

\* Witness of C32: a request that was parked and then answered 400 for its
\* viewport has released the flag and woken the request parked behind it.
C32_Witness ==
    \E t, u \in Tasks :
        /\ t < u
        /\ tasks[t].kind = "request" /\ ~tasks[t].viewportOk /\ tasks[t].pc = "done"
        /\ tasks[u].pc = "woken"
        /\ ~hbusy /\ micro = <<u>>

\* ------------------------------------------------------------------------
\* Order of service of the request queue (checked under HandlerSpec, where
\* invocations are numbered in their order of arrival)
\* ------------------------------------------------------------------------

\* Invocation u arrives in this step and goes past the busy test: it takes the
\* flag (or, a warm-up finding the flag set, returns at once).
EntersOnArrival(u) ==
    /\ tasks[u].pc = "none"
    /\ tasks'[u].pc \notin {"none", "waiting"}
    /\ ~(tasks'[u].kind = "next" /\ tasks'[u].pc = "done" /\ hbusy)

\* C33: parked requests are resumed in their order of arrival, and nothing
\* that arrives after a release enters the browser section before the request
\* which that release woke: an arrival goes past the busy test only when no
\* request is parked or woken.
C33_FifoService ==
    /\ [][\A u \in Tasks :
            /\ (tasks[u].pc = "waiting" /\ tasks'[u].pc = "woken") =>
                   \A w \in Tasks : tasks[w].pc = "waiting" => u <= w
            /\ EntersOnArrival(u) =>
                   /\ pending = <<>>
                   /\ \A w \in Tasks : tasks[w].pc \notin {"waiting", "woken"}]_vars
    /\ [](\A i, j \in 1..Len(pending) : i < j => pending[i] < pending[j])
    /\ [](\A u \in Tasks : tasks[u].pc = "woken" =>
            /\ micro # <<>>
            /\ \A w \in Tasks : ~Holding(w))

\* Witness of C33: the oldest of three parked requests has been woken and the
\* other two are still parked, in their order of arrival.
C33_Witness ==
    /\ Len(pending) = 2
    /\ \E t \in Tasks : tasks[t].pc = "woken" /\ t < pending[1] /\ micro = <<t>>

\* ------------------------------------------------------------------------
\* Properties of the warm-up timeout list (checked under NextRequestsSpec)
\* ------------------------------------------------------------------------

\* C34: after every scheduleNextRequest the list holds at most
\* MAX_NEXT_REQUESTS timeout ids; a push onto a full list clears the oldest
\* timeout of the list and removes it; and when next is missing, not positive
\* or the computed wait is negative, no timeout is created and the list is
\* left as it was.
C34_BoundedTimers ==
    /\ [](Len(nextRequests) <= MAX_NEXT_REQUESTS)
    /\ [](nextArmed \subseteq {nextRequests[i] : i \in DOMAIN nextRequests})
    /\ [][nextIssued' # nextIssued =>
            /\ nextCall'.next # <<>> /\ nextCall'.next[1] > 0
            /\ nextCall'.wait # <<>> /\ nextCall'.wait[1] >= 0
            /\ IF Len(nextRequests) = MAX_NEXT_REQUESTS
               THEN /\ nextRequests' = Append(Tail(nextRequests), nextIssued')
                    /\ nextCall'.cleared = <<Head(nextRequests)>>
                    /\ Head(nextRequests) \notin nextArmed'
               ELSE nextRequests' = Append(nextRequests, nextIssued')]_vars
    /\ [][nextRequests' # nextRequests \/ (nextArmed' \ nextArmed) # {} =>
            nextIssued' = nextIssued + 1]_vars
    /\ [](nextCall.added = <<>> <=>
            \/ nextCall.next = <<>>
            \/ nextCall.next[1] <= 0
            \/ nextCall.wait[1] < 0)

\* Witness of C34: the list is full, and the last call cleared a timeout that
\* was pushed after the first one while older ones had fired.
C34_Witness ==
    /\ Len(nextRequests) = MAX_NEXT_REQUESTS
    /\ nextCall.cleared = <<2>>
    /\ nextArmed # {}

\* ------------------------------------------------------------------------
\* Properties of Browser.cleanup (checked under BrowserSpec)
\* ------------------------------------------------------------------------

\* The invocation in the browser section has a page.
HasPage == req.pc \in {"gotPage", "navigated", "shooting"}

\* The cleanup invocations that are awaiting a close.
Closings == {c \in CleanupSlots : closing[c].pc # "idle"}

\* C35: the page used by a request is never one that a cleanup has captured
\* or closed, also when the request started while cleanup was still awaiting
\* its closes: the request then runs on a browser and page launched after the
\* reset; cleanup closes only the objects it captured, which are no longer
\* the Browser's current ones; and with no page there is no
\* lastRequestedPath, so that a dashboard is navigated in place only on a page
\* on which it was loaded in full.
C35_CleanupSparesPageInUse ==
    /\ [](HasPage =>
            /\ req.page # 0
            /\ req.page = brw.page
            /\ req.page \notin closedPages
            /\ req.page \notin closedBrowsers
            /\ \A c \in Closings : closing[c].page # req.page /\ closing[c].browser # req.page)
    /\ [](\A c \in Closings :
            /\ closing[c].page # 0 /\ closing[c].browser # 0
            /\ closing[c].page # brw.page /\ closing[c].browser # brw.browser)
    /\ [][\A n \in 1..MaxLaunches :
            n \in (closedPages' \ closedPages) \cup (closedBrowsers' \ closedBrowsers) =>
                \E c \in Closings : n \in {closing[c].page, closing[c].browser}]_vars
    /\ [](brw.page = 0 => brw.lastRequestedPath = "")
    /\ []((req.pc = "navigated" /\ ~req.fullLoad) => req.page \in loadedPages)

\* Witness of C35: a request that started while cleanup was awaiting the close
\* of page 1 has launched browser 2 and loaded its dashboard in full on page
\* 2, and cleanup is still awaiting.
C35_Witness ==
    /\ req.pc = "navigated" /\ req.page = 2 /\ req.fullLoad
    /\ \E c \in CleanupSlots : closing[c].pc = "closingPage" /\ closing[c].page = 1
    /\ 1 \in loadedPages

\* ------------------------------------------------------------------------
\* Properties of the screenshot size (checked under ViewportSpec)
\* ------------------------------------------------------------------------

\* C36 (as claimed): in every sequence of schedule runs, requests and
\* warm-ups, each page.screenshot call is given a clip height equal to the
\* viewport height its schedule or request asked for.
C36_StableClipHeight == clip # NoClip => clip.height = clip.asked

\* ------------------------------------------------------------------------
\* Properties of the scheduler's jobs (checked under ReloadSpec and
\* RegistrySpec)
\* ------------------------------------------------------------------------

\* The running cron tasks of schedule id.
LiveOf(id) == {k \in 1..Len(live) : live[k].schedule.id = id}

\* The stored schedule with this id is enabled.
StoredEnabled(id) == \E i \in 1..Len(store) : store[i].id = id /\ store[i].enabled

\* C37 (as claimed): after every loadAndSchedule each schedule id has at most
\* one running cron task, which is the one in the jobs map, and every running
\* task of an enabled schedule has the cron expression that the store now
\* holds for it, an invalid one included.
C37_OneJobWithStoredCron ==
    reloaded =>
        /\ \A id \in ScheduleIds : Cardinality(LiveOf(id)) <= 1
        /\ \A k \in 1..Len(live) : jobs[live[k].schedule.id] = live[k]
        /\ \A k \in 1..Len(live), i \in 1..Len(store) :
              (store[i].id = live[k].schedule.id /\ store[i].enabled)
                  => live[k].cronExpression = store[i].cron

\* C38: after every loadAndSchedule, whatever creations, updates and deletions
\* came before, every running cron task and every entry of the jobs map
\* belongs to a schedule that is in the store and enabled.
C38_NoJobForDisabledOrDeleted ==
    reloaded =>
        /\ \A k \in 1..Len(live) : StoredEnabled(live[k].schedule.id)
        /\ \A id \in ScheduleIds : jobs[id] # NoJob => StoredEnabled(id)

\* Witness of C38: after a reload a created schedule has its job, one of the
\* initial schedules has been deleted and the other disabled, and neither has
\* a job.
C38_Witness ==
    /\ reloaded
    /\ Len(live) = 1 /\ live[1].schedule.id = 3
    /\ Len(store) = 2
    /\ \E i \in 1..Len(store) : ~store[i].enabled

\* ------------------------------------------------------------------------
\* Properties of the schedule ids (checked under IdSpec)
\* ------------------------------------------------------------------------

StoredIds(schedules) == {schedules[i].id : i \in 1..Len(schedules)}

\* The request served in this step, with its method and status.
Served(method, status) ==
    reply'.seq # reply.seq /\ reply'.method = method /\ reply'.status = status

\* C39: the ids in the store are pairwise distinct after any sequence of
\* creations, updates and deletions; a created schedule gets the generated
\* id, which no stored schedule has, whatever id its payload carries; an
\* update leaves every id where it was, whatever id the updates carry; and a
\* deletion removes the id asked for and no other.
C39_IdsUniqueAndStable ==
    /\ [](\A i, j \in 1..Len(store) : i # j => store[i].id # store[j].id)
    /\ [][Served("POST", 201) =>
            /\ reply'.ret[1].id = generateId
            /\ generateId \notin StoredIds(store)
            /\ store' = Append(store, reply'.ret[1])]_vars
    /\ [][Served("PUT", 200) =>
            /\ reply'.ret[1].id = reply'.id
            /\ Len(store') = Len(store)
            /\ \A i \in 1..Len(store) : store'[i].id = store[i].id]_vars
    /\ [][Served("DELETE", 200) =>
            StoredIds(store') = StoredIds(store) \ {reply'.id}]_vars
    /\ [][store' # store =>
            Served("POST", 201) \/ Served("PUT", 200) \/ Served("DELETE", 200)]_vars

\* Witness of C39: after a creation, schedule 1 was updated with a body whose
\* id is 2; it is still schedule 1, next to schedules 2 and 3.
C39_Witness ==
    /\ reply.method = "PUT" /\ reply.status = 200 /\ reply.id = 1
    /\ sent = <<2>>
    /\ Len(store) = 3
    /\ store[1].id = 1 /\ store[2].id = 2 /\ store[3].id = 3

====
